---- MODULE Spec2Model ----
(***************************************************************************)
(* Pulse scoring and fusion engine: PulseCalculator, CommunityDataService, *)
(* GoogleBusynessService, PulseEngine and PulseBatchUpdateService.         *)
(*                                                                         *)
(* Numbers.  A pulse is a decimal number; it is kept in fixed point with   *)
(* Unit = 1.0, so 0.1 is Tenth.  Every product and quotient the code forms *)
(* on the inputs below is exact at this resolution.  Confidences and the   *)
(* community influence are kept in thousandths (ConfUnit = 1.0).           *)
(* Time is counted in minutes.  A missing (null) number is null.           *)
(*                                                                         *)
(* Store.  An awaited Store call either completes or raises; which one is  *)
(* the environment's choice (the "fault" of a call).                       *)
(***************************************************************************)
EXTENDS Integers, Sequences, FiniteSets, Bags, TLC

VARIABLES
    now,        \* wall clock, minutes
    cache,      \* table google_busyness_cache: place id -> entry
    reports,    \* table community_vibe_reports
    pings,      \* table anonymous_pings
    social,     \* table social_signals
    calcLog,    \* table pulse_calculations_log, a bag of rows
    venues,     \* table venues: id -> row
    points,     \* table user_points, a bag of rows
    queued,     \* venues queued for a pulse update
    result,     \* outcome of the last call of the Pulse API
    history,    \* table pulse_history, a bag of rows
    batch,      \* updateAllVenues: where the run is, its venue list, loop index
    tasks,      \* updateAllVenues: the evaluation of each venue of the list
    results,    \* updateAllVenues: the results array
    summary,    \* what updateAllVenues returned
    evals,      \* how often the batch has started an evaluation of each venue
    faulted     \* the venues whose evaluation had a Store call fail

batchVars == <<history, batch, tasks, results, summary, evals, faulted>>

vars == <<now, cache, reports, pings, social, calcLog, venues, points, queued,
          result, history, batch, tasks, results, summary, evals, faulted>>

(***************************************************************************)
(* Representation                                                          *)
(***************************************************************************)
Unit == 100000
Tenth == Unit \div 10
ConfUnit == 1000
null == -1

Min(a, b) == IF a <= b THEN a ELSE b
Max(a, b) == IF a >= b THEN a ELSE b

\* round1 without the rounding
round1Exact(x) == x

\* Math.round(x * 10) / 10 for x >= 0
round1(x) == ((x + (Tenth \div 2)) \div Tenth) * Tenth

\* Math.min(10, Math.max(0, x))
clampPulse(x) == Min(10 * Unit, Max(0, x))

(***************************************************************************)
(* PulseCalculator                                                         *)
(***************************************************************************)
calculateActivityScore(activeCheckIns) ==
    IF activeCheckIns >= 100 THEN 90 * Tenth
    ELSE IF activeCheckIns >= 75 THEN 85 * Tenth
    ELSE IF activeCheckIns >= 50 THEN 80 * Tenth
    ELSE IF activeCheckIns >= 30 THEN 70 * Tenth
    ELSE IF activeCheckIns >= 20 THEN 65 * Tenth
    ELSE IF activeCheckIns >= 15 THEN 60 * Tenth
    ELSE IF activeCheckIns >= 10 THEN 55 * Tenth
    ELSE IF activeCheckIns >= 5 THEN 50 * Tenth
    ELSE IF activeCheckIns >= 2 THEN 45 * Tenth
    ELSE IF activeCheckIns > 0 THEN 40 * Tenth
    ELSE 30 * Tenth

calculateMomentumBoost(trend) ==
    CASE trend = "surging" -> 10 * Tenth
      [] trend = "increasing" -> 5 * Tenth
      [] trend = "stable" -> 0
      [] trend = "decreasing" -> -(5 * Tenth)
      [] OTHER -> 0

\* the vibe boost always at its cap
fullVibeBoost(sentiment, photoCount) == Unit

\* sentiment is in hundredths (-100 .. 100)
calculateVibeBoost(sentiment, photoCount) ==
    LET s == IF sentiment > 70 THEN 5 * Tenth
             ELSE IF sentiment > 30 THEN 3 * Tenth
             ELSE IF sentiment > 0 THEN Tenth
             ELSE 0
        p == IF photoCount >= 10 THEN 5 * Tenth
             ELSE IF photoCount >= 5 THEN 3 * Tenth
             ELSE IF photoCount >= 2 THEN 2 * Tenth
             ELSE IF photoCount > 0 THEN Tenth
             ELSE 0
    IN  Min(Unit, s + p)

\* !waitTime holds for null and for 0
calculateWaitTimeBoost(waitTime) ==
    IF waitTime = null \/ waitTime = 0 THEN 0
    ELSE IF waitTime >= 45 THEN 20 * Tenth
    ELSE IF waitTime >= 30 THEN 15 * Tenth
    ELSE IF waitTime >= 20 THEN 10 * Tenth
    ELSE IF waitTime >= 10 THEN 7 * Tenth
    ELSE IF waitTime >= 5 THEN 5 * Tenth
    ELSE 0

\* the modifier with the weekday late-night test ahead of the evening test
timeModifierLateFirst(hour, dayOfWeek) ==
    IF (dayOfWeek >= 4 \/ dayOfWeek = 0) /\ (hour >= 22 \/ hour <= 2) THEN 115
    ELSE IF dayOfWeek >= 1 /\ dayOfWeek <= 3 /\ (hour >= 23 \/ hour <= 1) THEN 90
    ELSE IF hour >= 20 \/ hour <= 0 THEN 110
    ELSE IF dayOfWeek >= 1 /\ dayOfWeek <= 5 /\ hour >= 17 /\ hour <= 19 THEN 105
    ELSE IF hour >= 6 /\ hour < 17 THEN 70
    ELSE IF hour >= 3 /\ hour < 6 THEN 50
    ELSE 100

\* the modifier of applyTimeModifiers, in hundredths
timeModifier(hour, dayOfWeek) ==
    IF (dayOfWeek >= 4 \/ dayOfWeek = 0) /\ (hour >= 22 \/ hour <= 2) THEN 115
    ELSE IF hour >= 20 \/ hour <= 0 THEN 110
    ELSE IF dayOfWeek >= 1 /\ dayOfWeek <= 5 /\ hour >= 17 /\ hour <= 19 THEN 105
    ELSE IF dayOfWeek >= 1 /\ dayOfWeek <= 3 /\ (hour >= 23 \/ hour <= 1) THEN 90
    ELSE IF hour >= 6 /\ hour < 17 THEN 70
    ELSE IF hour >= 3 /\ hour < 6 THEN 50
    ELSE 100

applyTimeModifiers(basePulse, hour, dayOfWeek) ==
    (basePulse * timeModifier(hour, dayOfWeek)) \div 100

\* steps 1 to 4 of calculateFromMetrics: the activity score and the boosts
boostedScore(metrics) ==
    calculateActivityScore(metrics.activeCheckIns)
    + calculateMomentumBoost(metrics.checkInTrend)
    + calculateVibeBoost(metrics.recentSentiment, metrics.vibePhotosCount)
    + calculateWaitTimeBoost(metrics.reportedWaitTime)

\* step 6: pulse *= 1.2 for a special event
specialEventBoost(pulse, isSpecialEvent) ==
    IF isSpecialEvent THEN (pulse * 12) \div 10 ELSE pulse

calculateFromMetrics(metrics) ==
    [value |-> round1(clampPulse(
        specialEventBoost(
            applyTimeModifiers(boostedScore(metrics), metrics.hourOfDay,
                               metrics.dayOfWeek),
            metrics.isSpecialEvent)))]

\* a tenth of the level, with no floor
convertLinear(googleBusyness) == (googleBusyness * Unit) \div 10

convertGoogleToSpree(googleBusyness) ==
    IF googleBusyness >= 90 THEN 95 * Tenth
    ELSE IF googleBusyness >= 80 THEN 85 * Tenth + ((googleBusyness - 80) * Unit) \div 20
    ELSE IF googleBusyness >= 70 THEN 75 * Tenth + ((googleBusyness - 70) * Unit) \div 20
    ELSE IF googleBusyness >= 60 THEN 70 * Tenth + ((googleBusyness - 60) * Unit) \div 40
    ELSE IF googleBusyness >= 50 THEN 65 * Tenth + ((googleBusyness - 50) * Unit) \div 40
    ELSE IF googleBusyness >= 40 THEN 60 * Tenth + ((googleBusyness - 40) * Unit) \div 40
    ELSE IF googleBusyness >= 30 THEN 55 * Tenth + ((googleBusyness - 30) * Unit) \div 40
    ELSE IF googleBusyness >= 20 THEN 50 * Tenth + ((googleBusyness - 20) * Unit) \div 40
    ELSE IF googleBusyness >= 10 THEN 40 * Tenth + ((googleBusyness - 10) * Unit) \div 20
    ELSE IF googleBusyness > 0 THEN 30 * Tenth + (googleBusyness * Unit) \div 10
    ELSE 30 * Tenth

sourceConfidence(dataSource) ==
    CASE dataSource = "spree" -> 900
      [] dataSource = "community" -> 700
      [] dataSource = "google" -> 600
      [] OTHER -> 500

quantityAdjustment(dataPoints) ==
    IF dataPoints >= 20 THEN 100
    ELSE IF dataPoints >= 10 THEN 50
    ELSE IF dataPoints < 3 THEN -200
    ELSE 0

freshnessAdjustment(dataAge) ==
    IF dataAge < 15 THEN 50
    ELSE IF dataAge > 60 THEN -100
    ELSE IF dataAge > 120 THEN -200
    ELSE 0

\* the adjusted confidence without Math.min / Math.max
confidenceUnclamped(dataPoints, dataAge, dataSource) ==
    sourceConfidence(dataSource) + quantityAdjustment(dataPoints)
    + freshnessAdjustment(dataAge)

\* dataAge in minutes; result in thousandths
calculateConfidence(dataPoints, dataAge, dataSource) ==
    Min(ConfUnit, Max(100, sourceConfidence(dataSource)
                           + quantityAdjustment(dataPoints)
                           + freshnessAdjustment(dataAge)))

(***************************************************************************)
(* CommunityDataService: consensus and influence                           *)
(***************************************************************************)
VibeLevels == <<"dead", "chill", "busy", "packed">>

\* rows of table t for the venue with created_at >= since
recent(t, venueId, since) ==
    {r \in t : r.venue_id = venueId /\ r.created_at >= since}

RECURSIVE sumWait(_)
sumWait(rows) ==
    IF rows = {} THEN 0
    ELSE LET r == CHOOSE x \in rows : TRUE
         IN  r.wait_time_minutes + sumWait(rows \ {r})

\* the rows that add to totalWaitTime: a wait of 0 is falsy and is skipped
\* like a missing one
waitRows(vibeReports) ==
    {r \in vibeReports : r.wait_time_minutes # null /\ r.wait_time_minutes # 0}

countVibe(vibeReports, vibe) ==
    Cardinality({r \in vibeReports : r.vibe_level = vibe})

RECURSIVE findPlurality(_, _, _, _, _)
findPlurality(vibeReports, total, i, maxVotes, consensusVibe) ==
    IF i > Len(VibeLevels) THEN consensusVibe
    ELSE IF countVibe(vibeReports, VibeLevels[i]) > maxVotes
         THEN findPlurality(vibeReports, total, i + 1,
                            countVibe(vibeReports, VibeLevels[i]), VibeLevels[i])
         ELSE findPlurality(vibeReports, total, i + 1, maxVotes, consensusVibe)

\* the forEach over Object.entries(vibeScores), in insertion order
RECURSIVE findConsensus(_, _, _, _, _)
findConsensus(vibeReports, total, i, maxVotes, consensusVibe) ==
    IF i > Len(VibeLevels) THEN consensusVibe
    ELSE IF countVibe(vibeReports, VibeLevels[i]) > maxVotes
            /\ 10 * countVibe(vibeReports, VibeLevels[i]) >= 3 * total
         THEN findConsensus(vibeReports, total, i + 1,
                            countVibe(vibeReports, VibeLevels[i]), VibeLevels[i])
         ELSE findConsensus(vibeReports, total, i + 1, maxVotes, consensusVibe)

\* totalWaitTime / waitTimeReports as a fraction; den = 0 is null
averageOf(rows) ==
    IF rows # {} THEN [num |-> sumWait(rows), den |-> Cardinality(rows)]
    ELSE [num |-> 0, den |-> 0]

\* the aggregation of getConsensus over the rows its three queries read
aggregate(vibeReports, pingRows, socialSignals) ==
    [vibeReports |-> Cardinality(vibeReports),
     consensusVibe |-> findConsensus(vibeReports, Cardinality(vibeReports), 1, 0, "null"),
     vibeScores |-> [v \in {VibeLevels[i] : i \in 1..Len(VibeLevels)} |->
                       countVibe(vibeReports, v)],
     averageWaitTime |-> averageOf(waitRows(vibeReports)),
     anonymousPings |-> Cardinality(pingRows),
     uniqueDevices |-> Cardinality({p.device_id : p \in pingRows}),
     socialSignals |-> Cardinality(socialSignals),
     dataPoints |-> Cardinality(vibeReports) + Cardinality(pingRows)
                    + Cardinality(socialSignals)]

getConsensus(venueId, minutesBack) ==
    aggregate(recent(reports, venueId, now - minutesBack),
              recent(pings, venueId, now - minutesBack),
              recent(social, venueId, now - minutesBack))

influenceAlwaysRaised(consensus) ==
    Min(600, Min(400, consensus.dataPoints * 50) + 200)

\* Math.min(0.4, dataPoints / 20), raised for a strong consensus; thousandths
influenceOf(consensus) ==
    IF consensus.consensusVibe # "null" /\ consensus.vibeReports >= 5
    THEN Min(600, Min(400, consensus.dataPoints * 50) + 200)
    ELSE Min(400, consensus.dataPoints * 50)

vibeAdjustment(consensusVibe) ==
    CASE consensusVibe = "packed" -> 2 * Unit
      [] consensusVibe = "busy" -> Unit
      [] consensusVibe = "chill" -> 0
      [] consensusVibe = "dead" -> -(2 * Unit)
      [] OTHER -> 0

\* if (averageWaitTime): neither null nor 0
waitAdjustment(avg) ==
    IF avg.den > 0 /\ avg.num # 0
    THEN (IF avg.num >= 30 * avg.den THEN Unit
          ELSE IF avg.num >= 15 * avg.den THEN 5 * Tenth
          ELSE 0)
    ELSE 0

signalAdjustment(consensus) ==
    (IF consensus.uniqueDevices >= 20 THEN 5 * Tenth ELSE 0)
    + (IF consensus.socialSignals >= 5 THEN 3 * Tenth ELSE 0)

\* influence in thousandths, adjustment in pulse units
calculateInfluence(consensus) ==
    IF consensus.dataPoints < 3 THEN [influence |-> 0, adjustment |-> 0]
    ELSE [influence |-> influenceOf(consensus),
          adjustment |-> Max(-(2 * Unit), Min(2 * Unit,
                            vibeAdjustment(consensus.consensusVibe)
                            + waitAdjustment(consensus.averageWaitTime)
                            + signalAdjustment(consensus)))]

(***************************************************************************)
(* GoogleBusynessService                                                   *)
(***************************************************************************)
cacheExpiry == 5

NoData == [present |-> FALSE, currentBusyness |-> 0, usualBusyness |-> 0,
           relativeLevel |-> "average", trend |-> "stable",
           lastUpdated |-> 0, confidence |-> 0]
NoEntry == [present |-> FALSE, busyness_data |-> NoData, fetched_at |-> 0]

calculateTrend(current, usual) ==
    IF current - usual > 10 THEN "increasing"
    ELSE IF current - usual < -10 THEN "decreasing"
    ELSE "stable"

\* ratio = usual > 0 ? current / usual : 1
calculateRelativeLevel(current, usual) ==
    IF usual <= 0 THEN "average"
    ELSE IF 10 * current < 5 * usual THEN "low"
    ELSE IF 10 * current < 8 * usual THEN "below_average"
    ELSE IF 10 * current < 12 * usual THEN "average"
    ELSE IF 10 * current < 15 * usual THEN "above_average"
    ELSE "high"

\* response: what the provider answers ([kind, current, usual]);
\* kind "throw": fetch raises, "error": data.error, "noplace": no
\* place_results, "ok": place_results with current_popularity = current
fetchFromSerpAPI(apiKey, response) ==
    IF ~apiKey THEN NoData
    ELSE IF response.kind # "ok" THEN NoData
    ELSE [present |-> TRUE,
          currentBusyness |-> response.current,
          usualBusyness |-> response.usual,
          relativeLevel |-> calculateRelativeLevel(response.current, response.usual),
          trend |-> calculateTrend(response.current, response.usual),
          lastUpdated |-> now,
          confidence |-> IF response.current > 0 THEN 900 ELSE 300]

validCachedEver(data) ==
    IF ~data.present THEN NoData ELSE data.busyness_data

\* the entry read and its age check
validCached(data) ==
    IF ~data.present THEN NoData
    ELSE IF now - data.fetched_at > cacheExpiry THEN NoData
    ELSE data.busyness_data

getCachedData(placeId) == validCached(cache[placeId])

\* a write that leaves an entry already there in place
cacheDataIfAbsent(placeId, data) ==
    IF cache[placeId].present THEN cache
    ELSE [cache EXCEPT ![placeId] =
            [present |-> TRUE, busyness_data |-> data, fetched_at |-> now]]

\* the upsert of cacheData, keyed by the place id
cacheData(placeId, data) ==
    [cache EXCEPT ![placeId] =
        [present |-> TRUE, busyness_data |-> data, fetched_at |-> now]]

afterFetchCachingNull(placeId, freshData, called, fault) ==
    [data |-> freshData, cache |-> cacheData(placeId, freshData), called |-> called]

\* getBusyness after the fetch: cache the fresh data and return it
afterFetch(placeId, freshData, called, fault) ==
    IF ~freshData.present
    THEN [data |-> NoData, cache |-> cache, called |-> called]
    ELSE IF fault = "cacheWrite"
    THEN [data |-> NoData, cache |-> cache, called |-> called]
    ELSE [data |-> freshData, cache |-> cacheData(placeId, freshData),
          called |-> called]

\* getBusyness after the cache lookup
afterLookup(placeId, cached, apiKey, response, fault) ==
    IF cached.present
    THEN [data |-> cached, cache |-> cache, called |-> FALSE]
    ELSE afterFetch(placeId, fetchFromSerpAPI(apiKey, response), apiKey, fault)

\* fault: the Store call of this evaluation that raises, if reached; the
\* catch of getBusyness turns it into null.  called: the provider was called
getBusyness(placeId, apiKey, response, fault) ==
    IF fault = "cacheRead" THEN [data |-> NoData, cache |-> cache, called |-> FALSE]
    ELSE afterLookup(placeId, getCachedData(placeId), apiKey, response, fault)

(***************************************************************************)
(* PulseEngine                                                             *)
(***************************************************************************)
getDefaultPulse ==
    [value |-> 5 * Unit, confidence |-> 300, dataSource |-> "estimated",
     lastUpdated |-> now]

\* q: the rows the five queries of getVenueMetrics read, as the aggregates
\* the method takes of them (missing data reads as 0 / null)
getVenueMetrics(venueId, q, hour, day) ==
    LET checkInTrend ==
            IF 10 * q.checkInsLast30Min > 6 * q.checkInsLastHour THEN "surging"
            ELSE IF 10 * q.checkInsLastHour > 12 * q.previousHour THEN "increasing"
            ELSE IF 10 * q.checkInsLastHour < 8 * q.previousHour THEN "decreasing"
            ELSE "stable"
    IN  [venueId |-> venueId,
         activeCheckIns |-> q.activeCheckIns,
         checkInsLast30Min |-> q.checkInsLast30Min,
         checkInsLastHour |-> q.checkInsLastHour,
         checkInTrend |-> checkInTrend,
         reportedWaitTime |-> IF q.line_time_minutes = null \/ q.line_time_minutes = 0
                              THEN null ELSE q.line_time_minutes,
         recentSentiment |-> q.sentiment,
         vibePhotosCount |-> q.vibePhotosCount,
         dayOfWeek |-> day,
         hourOfDay |-> hour,
         isSpecialEvent |-> q.events > 0]

\* the row logCalculation inserts
logRow(venueId, pulse, metrics) ==
    [venue_id |-> venueId, calculated_pulse |-> pulse.value,
     data_source |-> pulse.dataSource, confidence |-> pulse.confidence,
     metrics |-> metrics]

\* An evaluation's outcome: the pulse it returns (when none of its steps
\* raised), the step that raised ("none" when none did), the tables it
\* leaves, which services it consulted, and what getBusyness answered.
Outcome(pulse, threw, log, c, google, community, sample) ==
    [pulse |-> pulse, threw |-> threw, calcLog |-> log, cache |-> c,
     google |-> google, community |-> community, sample |-> sample]

spreePulse(calcResult) ==
    [value |-> calcResult.value, confidence |-> 950,
     dataSource |-> "spree", lastUpdated |-> now]

\* the pulse returned with no row written to the calculations log
returnUnlogged(venue, pulse, metrics, fault) ==
    Outcome(pulse, IF fault = "log" THEN "log" ELSE "none", calcLog, cache,
            FALSE, FALSE, NoData)

\* calculateSpreePulse from logCalculation on
logAndReturn(venue, pulse, metrics, fault) ==
    IF fault = "log"
    THEN Outcome(pulse, "log", calcLog, cache, FALSE, FALSE, NoData)
    ELSE Outcome(pulse, "none",
                 calcLog (+) SetToBag({logRow(venue.id, pulse, metrics)}),
                 cache, FALSE, FALSE, NoData)

calculateSpreePulse(venue, q, hour, day, fault) ==
    IF fault = "metrics"
    THEN Outcome(getDefaultPulse, "metrics", calcLog, cache, FALSE, FALSE, NoData)
    ELSE logAndReturn(venue,
             spreePulse(calculateFromMetrics(getVenueMetrics(venue.id, q, hour, day))),
             getVenueMetrics(venue.id, q, hour, day),
             fault)

\* step 1 taking every sample, also one whose current level is 0
googleStepAnySample(googleData) ==
    IF googleData.present
    THEN [basePulse |-> convertGoogleToSpree(googleData.currentBusyness),
          confidence |-> 600, dataSource |-> "google"]
    ELSE [basePulse |-> 5 * Unit, confidence |-> 500, dataSource |-> "estimated"]

\* Step 1 of calculateNonPartnerPulse: base, confidence and source after
\* the Google data
googleStep(googleData) ==
    IF googleData.present /\ googleData.currentBusyness > 0
    THEN [basePulse |-> convertGoogleToSpree(googleData.currentBusyness),
          confidence |-> 600, dataSource |-> "google"]
    ELSE [basePulse |-> 5 * Unit, confidence |-> 500, dataSource |-> "estimated"]

\* blend adding the whole influence to the confidence, uncapped
blendFullInfluence(s, communityData, ia) ==
    [basePulse |-> (s.basePulse * (ConfUnit - ia.influence)
                    + (s.basePulse + ia.adjustment) * ia.influence) \div ConfUnit,
     confidence |-> s.confidence + ia.influence,
     dataSource |-> IF communityData.dataPoints >= 10 THEN "community"
                    ELSE s.dataSource]

\* a blend that keeps the source whatever the number of data points
blendKeepsSource(s, communityData, ia) ==
    [basePulse |-> (s.basePulse * (ConfUnit - ia.influence)
                    + (s.basePulse + ia.adjustment) * ia.influence) \div ConfUnit,
     confidence |-> Min(800, s.confidence + (ia.influence * 3) \div 10),
     dataSource |-> s.dataSource]

\* the blend of step 2
blend(s, communityData, ia) ==
    [basePulse |-> (s.basePulse * (ConfUnit - ia.influence)
                    + (s.basePulse + ia.adjustment) * ia.influence) \div ConfUnit,
     confidence |-> Min(800, s.confidence + (ia.influence * 3) \div 10),
     dataSource |-> IF communityData.dataPoints >= 10 THEN "community"
                    ELSE s.dataSource]

\* the community data left out of the score
skipCommunity(s, communityData, ia) == s

\* Step 2: apply community data
communityStep(s, communityData, ia) ==
    IF communityData.dataPoints >= 3 /\ ia.influence > 0
    THEN blend(s, communityData, ia)
    ELSE s

\* Step 3 and the return value
timeStep(s, hour, day) ==
    [value |-> round1(clampPulse(applyTimeModifiers(s.basePulse, hour, day))),
     confidence |-> s.confidence,
     dataSource |-> s.dataSource,
     lastUpdated |-> now]

afterGoogle(venue, g, hasPlace, communityData, hour, day, fault) ==
    IF fault \in {"reports", "pings", "social"}
    THEN Outcome(getDefaultPulse, fault, calcLog, g.cache, hasPlace, TRUE, g.data)
    ELSE Outcome(timeStep(communityStep(googleStep(g.data), communityData,
                                        calculateInfluence(communityData)),
                          hour, day),
                 "none", calcLog, g.cache, hasPlace, TRUE, g.data)

calculateNonPartnerPulse(venue, apiKey, response, hour, day, fault) ==
    afterGoogle(venue,
                IF venue.google_place_id # null
                THEN getBusyness(venue.google_place_id, apiKey, response, fault)
                ELSE [data |-> NoData, cache |-> cache, called |-> FALSE],
                venue.google_place_id # null,
                getConsensus(venue.id, 60),
                hour, day, fault)

\* calculatePulse up to its catch: the outcome of the try block
tryCalculatePulse(venueId, q, apiKey, response, hour, day, fault) ==
    IF fault = "getVenue"
    THEN Outcome(getDefaultPulse, "getVenue", calcLog, cache, FALSE, FALSE, NoData)
    ELSE IF venueId \notin DOMAIN venues
    THEN Outcome(getDefaultPulse, "notFound", calcLog, cache, FALSE, FALSE, NoData)
    ELSE IF venues[venueId].spree_onboarded
    THEN calculateSpreePulse(venues[venueId], q, hour, day, fault)
    ELSE calculateNonPartnerPulse(venues[venueId], apiKey, response, hour, day, fault)

\* a catch that hands back whatever pulse the try block had computed
catchAllKeepsPulse(t) ==
    [pulse |-> t.pulse,
     raised |-> FALSE,
     threw |-> t.threw,
     calcLog |-> t.calcLog,
     cache |-> t.cache,
     google |-> t.google,
     community |-> t.community,
     sample |-> t.sample]

\* the catch of calculatePulse: whatever was thrown, the default pulse is
\* returned and nothing is raised to the caller
catchAll(t) ==
    [pulse |-> IF t.threw # "none" THEN getDefaultPulse ELSE t.pulse,
     raised |-> FALSE,
     threw |-> t.threw,
     calcLog |-> t.calcLog,
     cache |-> t.cache,
     google |-> t.google,
     community |-> t.community,
     sample |-> t.sample]

calculatePulse(venueId, q, apiKey, response, hour, day, fault) ==
    catchAll(tryCalculatePulse(venueId, q, apiKey, response, hour, day, fault))

(***************************************************************************)
(* Pulse.calculate: one evaluation from a Store state                      *)
(***************************************************************************)
\* the venues table of the single-evaluation specification: a Spree partner,
\* a non-partner with a Google place id, a non-partner without one
venueRow(id, onboarded, placeId) ==
    [id |-> id, google_place_id |-> placeId, spree_onboarded |-> onboarded,
     is_active |-> TRUE, pulse |-> 0, pulse_confidence |-> 500, pulse_data_source |-> "estimated",
     pulse_updated_at |-> 0]

EngineVenues ==
    (1 :> venueRow(1, TRUE, null)) @@ (2 :> venueRow(2, FALSE, 1))
    @@ (3 :> venueRow(3, FALSE, null))

PlaceIds == {1}

\* check-ins read in <<last 30 min, last hour, previous hour>>: one for each
\* trend
CheckInWindows == { <<3, 4, 4>>, <<0, 4, 2>>, <<0, 4, 4>>, <<0, 1, 4>> }

\* what the queries of getVenueMetrics can read
MetricQueries ==
    { [activeCheckIns |-> a,
       checkInsLast30Min |-> w[1], checkInsLastHour |-> w[2], previousHour |-> w[3],
       line_time_minutes |-> l, sentiment |-> s, vibePhotosCount |-> p,
       events |-> e] :
         a \in {0, 12, 100}, w \in CheckInWindows, l \in {null, 0, 35},
         s \in {-50, 80}, p \in {0, 6}, e \in {0, 1} }

\* <<hour, day of week>> of the evaluation: one for each branch of
\* applyTimeModifiers, and two for its fallthrough
EvaluationTimes ==
    { <<23, 5>>, <<1, 0>>, <<21, 2>>, <<0, 2>>, <<18, 3>>, <<1, 2>>,
      <<12, 6>>, <<4, 1>>, <<19, 0>>, <<2, 3>> }

\* what the provider can answer
ProviderResponses ==
    [kind : {"throw", "error", "noplace"}, current : {0}, usual : {50}]
    \cup [kind : {"ok"}, current : {0, 1, 45, 95}, usual : {50}]

\* community rows: <<packed, dead, chill, busy, wait, pings, social, age>>
CommunityCases ==
    { <<0, 0, 0, 0, null, 0, 0, 10>>,
      <<2, 0, 0, 0, null, 0, 0, 10>>,
      <<4, 0, 0, 0, null, 0, 0, 10>>,
      <<4, 0, 0, 0, null, 0, 0, 70>>,
      <<0, 5, 0, 0, null, 0, 0, 10>>,
      <<6, 0, 0, 0, 35, 14, 5, 10>>,
      <<0, 0, 3, 0, 0, 7, 0, 10>>,
      <<0, 0, 2, 2, 20, 0, 0, 10>>,
      <<0, 0, 0, 2, null, 7, 0, 10>>,
      <<0, 0, 0, 0, null, 3, 0, 10>> }

mkReports(venueId, first, n, vibe, wait, at) ==
    {[id |-> u, venue_id |-> venueId, user_id |-> u, vibe_level |-> vibe,
      wait_time_minutes |-> wait, created_at |-> at] : u \in first..(first + n - 1)}

mkPings(venueId, n, at) ==
    {[id |-> d, venue_id |-> venueId, device_id |-> d, created_at |-> at] : d \in 1..n}

mkSocial(venueId, n, at) ==
    {[id |-> k, venue_id |-> venueId, created_at |-> at] : k \in 1..n}

caseReports(venueId, c, t) ==
    mkReports(venueId, 1, c[1], "packed", c[5], t - c[8])
    \cup mkReports(venueId, c[1] + 1, c[2], "dead", c[5], t - c[8])
    \cup mkReports(venueId, c[1] + c[2] + 1, c[3], "chill", c[5], t - c[8])
    \cup mkReports(venueId, c[1] + c[2] + c[3] + 1, c[4], "busy", c[5], t - c[8])

sampleOf(current, at) ==
    [present |-> TRUE, currentBusyness |-> current, usualBusyness |-> 50,
     relativeLevel |-> calculateRelativeLevel(current, 50),
     trend |-> calculateTrend(current, 50),
     lastUpdated |-> at, confidence |-> IF current > 0 THEN 900 ELSE 300]

cacheEntry(current, at) ==
    [present |-> TRUE, busyness_data |-> sampleOf(current, at), fetched_at |-> at]

\* cache entries the table can hold at time t: none, one at the expiry
\* boundary (with and without a signal), an expired one
CacheEntries(t) ==
    {NoEntry, cacheEntry(70, t - cacheExpiry), cacheEntry(0, t - cacheExpiry),
     cacheEntry(70, t - cacheExpiry - 1)}

NoSummary == [total |-> null, updated |-> null, failed |-> null, hotVenues |-> <<>>]

IdleBatch == [phase |-> "idle", list |-> <<>>, i |-> 0, chunks |-> 0, raised |-> FALSE]

\* no batch run has been started
BatchIdle ==
    /\ history = EmptyBag
    /\ batch = IdleBatch
    /\ tasks = <<>>
    /\ results = <<>>
    /\ summary = NoSummary
    /\ evals = [v \in DOMAIN venues |-> 0]
    /\ faulted = {}

NoResult ==
    [op |-> "none", venueId |-> 0, raised |-> FALSE, threw |-> "none",
     pulse |-> [value |-> 0, confidence |-> 0, dataSource |-> "none", lastUpdated |-> 0],
     google |-> FALSE, community |-> FALSE, sample |-> NoData,
     hour |-> 0, day |-> 0]

Init ==
    /\ now = 120
    /\ venues = EngineVenues
    /\ \E c \in CommunityCases :
         /\ reports = caseReports(2, c, now) \cup caseReports(3, c, now)
         /\ pings = mkPings(2, c[6], now - c[8]) \cup mkPings(3, c[6], now - c[8])
         /\ social = mkSocial(2, c[7], now - c[8]) \cup mkSocial(3, c[7], now - c[8])
    /\ \E e \in CacheEntries(now) : cache = [p \in PlaceIds |-> e]
    /\ calcLog = EmptyBag
    /\ points = EmptyBag
    /\ queued = {}
    /\ result = NoResult
    /\ BatchIdle

\* the state a completed Pulse.calculate(venueId) leaves; hour and day are
\* those of the evaluation
Returned(venueId, hour, day, out) ==
    /\ result' = [op |-> "calculate", venueId |-> venueId,
                  raised |-> out.raised, threw |-> out.threw, pulse |-> out.pulse,
                  google |-> out.google, community |-> out.community,
                  sample |-> out.sample,
                  hour |-> hour, day |-> day]
    /\ calcLog' = out.calcLog
    /\ cache' = out.cache

\* Pulse.calculate(venueId), with everything the environment decides
Calculate(venueId, q, apiKey, response, hour, day, fault) ==
    /\ result.op = "none"
    /\ Returned(venueId, hour, day,
                calculatePulse(venueId, q, apiKey, response, hour, day, fault))
    /\ UNCHANGED <<now, reports, pings, social, venues, points, queued>>
    /\ UNCHANGED batchVars

AnyQuery == CHOOSE q \in MetricQueries : TRUE
AnyResponse == CHOOSE r \in ProviderResponses : TRUE
AnyTime == CHOOSE t \in EvaluationTimes : TRUE

\* a venue id the table does not hold
CalculateUnknown ==
    /\ result.op = "none"
    /\ \E venueId \in {0, 4}, fault \in {"none", "getVenue"} :
        Calculate(venueId, AnyQuery, TRUE, AnyResponse, AnyTime[1], AnyTime[2], fault)

\* what the environment decides for a partner venue: <<fault, rows, time>>
SpreeEnvironments ==
    ({"none", "log"} \X MetricQueries \X EvaluationTimes)
    \cup ({"getVenue", "metrics"} \X {AnyQuery} \X {AnyTime})

CalculateSpree ==
    /\ result.op = "none"
    /\ \E venueId \in {v \in DOMAIN venues : venues[v].spree_onboarded},
          e \in SpreeEnvironments :
        Calculate(venueId, e[2], TRUE, AnyResponse, e[3][1], e[3][2], e[1])

\* for a non-partner venue: <<fault, api key set, response, time>>
NonPartnerEnvironments ==
    ({"none", "cacheRead", "cacheWrite"} \X BOOLEAN \X ProviderResponses
        \X EvaluationTimes)
    \cup ({"getVenue", "reports", "pings", "social"} \X {TRUE}
            \X {r \in ProviderResponses : r.kind = "ok"} \X {AnyTime})

CalculateNonPartner ==
    /\ result.op = "none"
    /\ \E venueId \in {v \in DOMAIN venues : ~venues[v].spree_onboarded},
          e \in NonPartnerEnvironments :
        Calculate(venueId, AnyQuery, e[2], e[3], e[4][1], e[4][2], e[1])

Next == CalculateUnknown \/ CalculateSpree \/ CalculateNonPartner

Spec == Init /\ [][Next]_vars

(***************************************************************************)
(* Properties of Pulse.calculate                                           *)
(***************************************************************************)
Called == result.op = "calculate"
IsDefaultPulse(p) ==
    p.value = 5 * Unit /\ p.confidence = 300 /\ p.dataSource = "estimated"

\* C1 (as claimed): calculate for a venue id the Store does not hold raises
\* a not-found failure to the caller instead of returning a pulse.
C1_NotFoundSurfaced ==
    (Called /\ result.threw = "notFound") => result.raised

\* C2: for an existing venue, when a step of the evaluation raises (the
\* venue read, the metrics read, the audit insert, the reads of reports,
\* pings or social signals), calculate raises nothing and returns the
\* default pulse 5.0 / 0.3 / estimated.
C2_FailureYieldsDefault ==
    (Called /\ result.venueId \in DOMAIN venues /\ result.threw # "none")
        => (~result.raised /\ IsDefaultPulse(result.pulse))

\* the audit insert raised after a partner venue's pulse was computed
C2_Witness ==
    /\ Called
    /\ result.venueId \in DOMAIN venues
    /\ result.threw = "log"
    /\ ~result.raised
    /\ IsDefaultPulse(result.pulse)

\* C3: every pulse calculate returns, on either path or by default, has a
\* value within [0, 10] that is a multiple of 0.1.
C3_ValueBounded ==
    Called => (/\ result.pulse.value >= 0
               /\ result.pulse.value <= 10 * Unit
               /\ result.pulse.value % Tenth = 0)

\* a partner venue's pulse that the clamp cut to 10.0
C3_Witness ==
    /\ Called
    /\ result.threw = "none"
    /\ result.pulse.dataSource = "spree"
    /\ result.pulse.value = 10 * Unit

\* C4: every pulse calculate returns has a confidence within [0.1, 1]: 0.95
\* for a partner venue, 0.3 by default, and for a non-partner venue 0.5 or
\* 0.6 raised by the community blend to at most 0.8.
C4_ConfidenceBounded ==
    Called =>
        /\ result.pulse.confidence >= 100
        /\ result.pulse.confidence <= ConfUnit
        /\ result.threw # "none" => result.pulse.confidence = 300
        /\ (result.threw = "none" /\ venues[result.venueId].spree_onboarded)
              => result.pulse.confidence = 950
        /\ (result.threw = "none" /\ ~venues[result.venueId].spree_onboarded)
              => /\ result.pulse.confidence >= 500
                 /\ result.pulse.confidence <= 800
                 /\ getConsensus(result.venueId, 60).dataPoints < 3
                       => result.pulse.confidence \in {500, 600}

\* Google data blended with a strong community consensus
C4_Witness ==
    /\ Called
    /\ result.threw = "none"
    /\ ~venues[result.venueId].spree_onboarded
    /\ result.pulse.confidence = 780

(***************************************************************************)
(* CommunityDataService: submissions, one call at a time                   *)
(***************************************************************************)
oneMinuteAgo == now - 1

\* new Date(Date.now() - 60 * 60 * 1000)
oneHourAgo == now - 60

\* .single(): the row when the query matches exactly one row, else null
single(rows) == Cardinality(rows) = 1

\* the rate-limit query of submitVibeReport
existingReport(report) ==
    single({r \in reports : /\ r.venue_id = report.venue_id
                            /\ r.user_id = report.user_id
                            /\ r.created_at >= oneHourAgo})

\* the row the insert adds: the report with created_at set to the time of
\* the insert, under a fresh id
reportRow(report) ==
    [venue_id |-> report.venue_id, user_id |-> report.user_id, vibe_level |-> report.vibe_level,
     wait_time_minutes |-> report.wait_time_minutes, created_at |-> now]

pointsRow(userId, n) ==
    [user_id |-> userId, points |-> n, source_type |-> "community", timestamp |-> now]

\* a queuePulseUpdate that queues nothing
queueNothing(venueId) == queued

\* queuePulseUpdate(venueId): the venues queued for a pulse update after it
queuePulseUpdate(venueId) == queued \cup {venueId}

\* submitVibeReport: what it raises and the tables it leaves
submitVibeReport(report) ==
    IF existingReport(report)
    THEN [raised |-> TRUE, error |-> "RateLimited", reports |-> reports,
          points |-> points, queued |-> queued]
    ELSE [raised |-> FALSE, error |-> "none",
          reports |-> reports \cup {reportRow(report)},
          points |-> points (+) SetToBag({pointsRow(report.user_id, 5)}),
          queued |-> queuePulseUpdate(report.venue_id)]

\* the rate-limit query of submitAnonymousPing
existingPing(ping) ==
    single({r \in pings : /\ r.venue_id = ping.venue_id
                          /\ r.device_id = ping.device_id
                          /\ r.created_at >= oneHourAgo})

pingRow(ping) ==
    [venue_id |-> ping.venue_id, device_id |-> ping.device_id, created_at |-> now]

submitPingRaising(ping) ==
    IF existingPing(ping)
    THEN [raised |-> TRUE, error |-> "RateLimited", pings |-> pings]
    ELSE [raised |-> FALSE, error |-> "none", pings |-> pings \cup {pingRow(ping)}]

\* submitAnonymousPing: what it raises and the table it leaves
submitAnonymousPing(ping) ==
    IF existingPing(ping)
    THEN [raised |-> FALSE, error |-> "none", pings |-> pings]
    ELSE [raised |-> FALSE, error |-> "none", pings |-> pings \cup {pingRow(ping)}]

MaxTime == 61

\* the instants at which something happens: around the ends of the hours
Instants == {t \in 0..MaxTime : t % 60 \in {0, 1, 2, 59}}

Users == {1, 2}
Devices == {1, 2}

ReportInputs ==
    [venue_id : {2, 3}, user_id : Users, vibe_level : {"busy"},
     wait_time_minutes : {20}]

PingInputs == [venue_id : {2, 3}, device_id : Devices]

NoCall == [op |-> "none", venue_id |-> 0, who |-> 0, raised |-> FALSE,
           error |-> "none", at |-> 0]

InitCommunity ==
    /\ now = 0
    /\ venues = EngineVenues
    /\ reports = {}
    /\ pings = {}
    /\ social = {}
    /\ cache = [p \in PlaceIds |-> NoEntry]
    /\ calcLog = EmptyBag
    /\ points = EmptyBag
    /\ queued = {}
    /\ result = NoCall
    /\ BatchIdle

Tick ==
    /\ \E t \in Instants : t > now /\ now' = t
    /\ UNCHANGED <<cache, reports, pings, social, calcLog, venues, points, queued,
                   result>>
    /\ UNCHANGED batchVars

SubmitVibeReport ==
    \E report \in ReportInputs :
        LET out == submitVibeReport(report)
        IN  /\ reports' = out.reports
            /\ points' = out.points
            /\ queued' = out.queued
            /\ result' = [op |-> "submitVibeReport", venue_id |-> report.venue_id,
                          who |-> report.user_id, raised |-> out.raised,
                          error |-> out.error, at |-> now]
            /\ UNCHANGED <<now, cache, pings, social, calcLog, venues>>
            /\ UNCHANGED batchVars

SubmitPing ==
    \E ping \in PingInputs :
        LET out == submitAnonymousPing(ping)
        IN  /\ pings' = out.pings
            /\ result' = [op |-> "submitPing", venue_id |-> ping.venue_id,
                          who |-> ping.device_id, raised |-> out.raised,
                          error |-> out.error, at |-> now]
            /\ UNCHANGED <<now, cache, reports, social, calcLog, venues, points,
                           queued>>
            /\ UNCHANGED batchVars

NextReports == Tick \/ SubmitVibeReport
SpecReports == InitCommunity /\ [][NextReports]_vars

NextPings == Tick \/ SubmitPing
SpecPings == InitCommunity /\ [][NextPings]_vars

\* the accepted reports of one (venue, participant) pair
reportsOf(venueId, userId) ==
    {r \in reports : r.venue_id = venueId /\ r.user_id = userId}

\* a step that is a call of submitVibeReport
ReportCall == now' = now /\ result'.op = "submitVibeReport"

NoTwoWithinHour ==
    \A r1, r2 \in reports :
        (r1 # r2 /\ r1.venue_id = r2.venue_id /\ r1.user_id = r2.user_id)
            => (r1.created_at - r2.created_at >= 60 \/ r2.created_at - r1.created_at >= 60)

ReportCallObeysLimit ==
    ReportCall =>
        LET prior == reportsOf(result'.venue_id, result'.who)
        IN  /\ (\E r \in prior : now - r.created_at < 60)
                => (result'.raised /\ result'.error = "RateLimited" /\ reports' = reports)
            /\ (prior # {} /\ \A r \in prior : now - r.created_at > 60)
                => /\ ~result'.raised
                   /\ Cardinality(reports') = Cardinality(reports) + 1
                   /\ \E r \in reports' \ reports :
                        /\ r.venue_id = result'.venue_id
                        /\ r.user_id = result'.who
                        /\ r.created_at = now

\* C5: with submissions made one after another, a second report for the same
\* (venue, participant) pair made less than an hour after an accepted one is
\* rejected with RateLimited and stores nothing, one made more than an hour
\* after the last accepted one is admitted and stored, and the store never holds
\* two accepted reports of one pair less than an hour apart.
C5_RateLimit == []NoTwoWithinHour /\ [][ReportCallObeysLimit]_vars

\* a report made 59 minutes after the accepted one of the same pair is rejected
C5_Witness ==
    /\ result.op = "submitVibeReport" /\ result.raised
    /\ result.error = "RateLimited" /\ result.at = 59 /\ now = 59
    /\ \E r \in reportsOf(result.venue_id, result.who) : r.created_at = 0

\* a step that is a call of submitPing
PingCall == now' = now /\ result'.op = "submitPing"

pingsOf(venueId, deviceId) ==
    {r \in pings : r.venue_id = venueId /\ r.device_id = deviceId}

PingCallIsSilent ==
    PingCall =>
        LET prior == pingsOf(result'.venue_id, result'.who)
        IN  /\ ~result'.raised
            /\ reports' = reports /\ points' = points
            /\ (\E r \in prior : now - r.created_at <= 60) => pings' = pings
            /\ (\A r \in prior : now - r.created_at > 60)
                => /\ Cardinality(pings') = Cardinality(pings) + 1
                   /\ \E r \in pings' \ pings :
                        /\ r.venue_id = result'.venue_id
                        /\ r.device_id = result'.who
                        /\ r.created_at = now

batchSize == 10

RECURSIVE ascending(_)
\* the members of a set of ids as a list
ascending(S) ==
    IF S = {} THEN <<>>
    ELSE <<CHOOSE x \in S : \A y \in S : x <= y>>
         \o ascending(S \ {CHOOSE x \in S : \A y \in S : x <= y})

\* the rows the initial select returns: active venues, partners first
activeVenues ==
    ascending({v \in DOMAIN venues : venues[v].is_active /\ venues[v].spree_onboarded})
    \o ascending({v \in DOMAIN venues : venues[v].is_active /\ ~venues[v].spree_onboarded})

\* the initial select: it raises, answers without data, or answers the rows
fetchVenues(fetch) ==
    IF fetch = "throw" THEN [raised |-> TRUE, data |-> <<>>]
    ELSE IF fetch = "error" THEN [raised |-> FALSE, data |-> <<>>]
    ELSE [raised |-> FALSE, data |-> activeVenues]

\* the positions of venues.slice(i, i + batchSize) in the list
chunkPositions(list, i) ==
    {k \in 1..Len(list) : k > i /\ k <= i + batchSize}

nextIndexSkipping(i) == i + batchSize + 1

\* i += batchSize
nextIndex(i) == i + batchSize

neverAwaited(list, i) == TRUE

\* await Promise.all(...): every callback of the chunk has settled
chunkSettled(list, i) ==
    \A k \in chunkPositions(list, i) : tasks[k].state = "done"

NoTaskResult == [success |-> FALSE, venueId |-> 0, pulse |-> 0, dataSource |-> "none"]

taskSucceeded(venueId, pulse) ==
    [success |-> TRUE, venueId |-> venueId, pulse |-> pulse.value,
     dataSource |-> pulse.dataSource]

taskFailed(venueId) ==
    [success |-> FALSE, venueId |-> venueId, pulse |-> 0, dataSource |-> "estimated"]

\* the venues row after the update of the pulse columns
persisted(row, pulse) ==
    [row EXCEPT !.pulse = pulse.value, !.pulse_confidence = pulse.confidence,
                !.pulse_data_source = pulse.dataSource,
                !.pulse_updated_at = pulse.lastUpdated]

historyRow(venueId, pulse) ==
    [venue_id |-> venueId, pulse_value |-> pulse.value,
     confidence |-> pulse.confidence, data_sources |-> <<pulse.dataSource>>]

\* the callback from the return of calculatePulse on: out is what
\* calculatePulse returned or raised, fault the Store call that raises
afterCalculation(venueId, out, fault) ==
    IF out.raised \/ fault = "persist"
    THEN [result |-> taskFailed(venueId), venues |-> venues, history |-> history,
          calcLog |-> out.calcLog, cache |-> out.cache]
    ELSE IF fault = "history"
    THEN [result |-> taskFailed(venueId),
          venues |-> [venues EXCEPT ![venueId] = persisted(@, out.pulse)],
          history |-> history, calcLog |-> out.calcLog, cache |-> out.cache]
    ELSE [result |-> taskSucceeded(venueId, out.pulse),
          venues |-> [venues EXCEPT ![venueId] = persisted(@, out.pulse)],
          history |-> history (+) SetToBag({historyRow(venueId, out.pulse)}),
          calcLog |-> out.calcLog, cache |-> out.cache]

\* the fault as calculatePulse sees it
calculationFault(fault) == IF fault \in {"persist", "history"} THEN "none" ELSE fault

\* what the queries of getVenueMetrics read for a venue during the batch
batchQuery(venueId) ==
    [activeCheckIns |-> (venueId * 7) % 45,
     checkInsLast30Min |-> 0, checkInsLastHour |-> 4, previousHour |-> 4,
     line_time_minutes |-> null, sentiment |-> 80, vibePhotosCount |-> 0,
     events |-> 0]

\* <<hour, day of week>> of the batch run: a Friday at 9 PM
BatchTime == <<21, 5>>

\* the callback of batch.map for one venue
evaluateVenue(venueId, fault) ==
    afterCalculation(venueId,
        calculatePulse(venueId, batchQuery(venueId), TRUE, AnyResponse,
                       BatchTime[1], BatchTime[2], calculationFault(fault)),
        fault)

\* stable insertion into a list sorted by falling pulse
insertDesc(sorted, x) ==
    SubSeq(sorted, 1, Cardinality({j \in 1..Len(sorted) : sorted[j].pulse >= x.pulse}))
    \o <<x>>
    \o SubSeq(sorted, Cardinality({j \in 1..Len(sorted) : sorted[j].pulse >= x.pulse}) + 1,
              Len(sorted))

unsorted(s) == s

RECURSIVE sortDesc(_)
sortDesc(s) ==
    IF s = <<>> THEN <<>>
    ELSE insertDesc(sortDesc(SubSeq(s, 1, Len(s) - 1)), s[Len(s)])

isSuccess(r) == r.success
isFailure(r) == ~r.success
isHot(r) == r.success /\ r.pulse >= 7 * Unit

hotVenues(rs) ==
    sortDesc([k \in 1..Len(SelectSeq(rs, isHot)) |->
                [id |-> SelectSeq(rs, isHot)[k].venueId,
                 pulse |-> SelectSeq(rs, isHot)[k].pulse]])

\* the statistics and the returned summary
summarize(list, rs) ==
    [total |-> Len(list),
     updated |-> Len(SelectSeq(rs, isSuccess)),
     failed |-> Len(SelectSeq(rs, isFailure)),
     hotVenues |-> hotVenues(rs)]

EmptySummary == [total |-> 0, updated |-> 0, failed |-> 0, hotVenues |-> <<>>]

MaxVenues == 23

\* how many active venues the table holds
VenueCounts == {0, 1, batchSize, batchSize + 1, MaxVenues}

\* the venues whose Store calls can fail during the run
FaultyVenues == {1, 2, 21}

VenueFaults == {"none", "getVenue", "persist", "history"}

\* n active venues, those of even id partners, and an inactive one
BatchVenues(n) ==
    [v \in 1..(n + 1) |->
        [venueRow(v, v % 2 = 0, null) EXCEPT !.is_active = (v <= n)]]

InitBatch ==
    /\ now = 120
    /\ \E n \in VenueCounts : venues = BatchVenues(n)
    /\ reports = {}
    /\ pings = {}
    /\ social = {}
    /\ cache = [p \in PlaceIds |-> NoEntry]
    /\ calcLog = EmptyBag
    /\ points = EmptyBag
    /\ queued = {}
    /\ result = NoCall
    /\ BatchIdle

engineVars == <<now, reports, pings, social, points, queued, result>>

\* updateAllVenues up to its loop
StartUpdateAll ==
    \E fetch \in {"ok", "error", "throw"} :
        /\ batch.phase = "idle"
        /\ batch' = [phase |-> IF fetchVenues(fetch).raised \/ fetchVenues(fetch).data = <<>>
                               THEN "done" ELSE "loop",
                     list |-> fetchVenues(fetch).data, i |-> 0, chunks |-> 0,
                     raised |-> fetchVenues(fetch).raised]
        /\ tasks' = [k \in 1..Len(fetchVenues(fetch).data) |->
                        [state |-> "pending", result |-> NoTaskResult]]
        /\ summary' = IF fetchVenues(fetch).raised THEN NoSummary
                      ELSE IF fetchVenues(fetch).data = <<>> THEN EmptySummary
                      ELSE NoSummary
        /\ UNCHANGED <<venues, cache, calcLog, history, results, evals, faulted>>
        /\ UNCHANGED engineVars

\* the loop test passes: batch.map starts the callback of every venue of
\* the slice
StartChunk ==
    /\ batch.phase = "loop"
    /\ batch.i < Len(batch.list)
    /\ batch' = [batch EXCEPT !.phase = "await", !.chunks = @ + 1]
    /\ tasks' = [k \in DOMAIN tasks |->
                    IF k \in chunkPositions(batch.list, batch.i)
                    THEN [state |-> "running", result |-> NoTaskResult]
                    ELSE tasks[k]]
    /\ evals' = [v \in DOMAIN evals |->
                    evals[v] + Cardinality({k \in chunkPositions(batch.list, batch.i) :
                                               batch.list[k] = v})]
    /\ UNCHANGED <<venues, cache, calcLog, history, results, summary, faulted>>
    /\ UNCHANGED engineVars

\* the callback of one venue settles
FinishVenue ==
    \E k \in DOMAIN tasks :
      \E fault \in IF batch.list[k] \in FaultyVenues THEN VenueFaults ELSE {"none"} :
        LET out == evaluateVenue(batch.list[k], fault)
        IN  /\ batch.phase = "await"
            /\ tasks[k].state = "running"
            /\ tasks' = [tasks EXCEPT ![k] = [state |-> "done", result |-> out.result]]
            /\ venues' = out.venues
            /\ history' = out.history
            /\ calcLog' = out.calcLog
            /\ cache' = out.cache
            /\ faulted' = IF fault = "none" THEN faulted
                          ELSE faulted \cup {batch.list[k]}
            /\ UNCHANGED <<batch, results, summary, evals>>
            /\ UNCHANGED engineVars

\* Promise.all resolves: the results of the chunk are pushed in list order
CollectChunk ==
    /\ batch.phase = "await"
    /\ chunkSettled(batch.list, batch.i)
    /\ results' = results \o [j \in 1..Cardinality(chunkPositions(batch.list, batch.i)) |->
                                tasks[batch.i + j].result]
    /\ batch' = [batch EXCEPT !.phase = "loop", !.i = nextIndex(@)]
    /\ UNCHANGED <<venues, cache, calcLog, history, tasks, summary, evals, faulted>>
    /\ UNCHANGED engineVars

\* the loop test fails: statistics, hot venues, return
Summarize ==
    /\ batch.phase = "loop"
    /\ batch.i >= Len(batch.list)
    /\ summary' = summarize(batch.list, results)
    /\ batch' = [batch EXCEPT !.phase = "done"]
    /\ UNCHANGED <<venues, cache, calcLog, history, tasks, results, evals, faulted>>
    /\ UNCHANGED engineVars

NextBatch == StartUpdateAll \/ StartChunk \/ FinishVenue \/ CollectChunk \/ Summarize

SpecBatch == InitBatch /\ [][NextBatch]_vars

(***************************************************************************)
(* Properties of updateAllVenues                                           *)
(***************************************************************************)
\* the run has returned a summary
BatchReturned == batch.phase = "done" /\ ~batch.raised

\* the chunk a position of the list belongs to
chunkOf(k) == ((k - 1) \div batchSize) + 1

InFlight == {k \in DOMAIN tasks : tasks[k].state = "running"}

\* C7: no evaluation of a chunk is started before every evaluation of the
\* chunks before it has settled, so never more than ten evaluations are in
\* flight, and a run over n venues takes ceil(n / 10) chunks.
C7_ChunksInOrder ==
    /\ Cardinality(InFlight) <= 10
    /\ \A k \in DOMAIN tasks :
         tasks[k].state # "pending"
            => /\ chunkOf(k) <= batch.chunks
               /\ \A j \in DOMAIN tasks :
                    chunkOf(j) < chunkOf(k) => tasks[j].state = "done"
    /\ BatchReturned => batch.chunks = (Len(batch.list) + 9) \div 10

\* a run over 23 venues has returned after 3 chunks, with a failed venue in
\* the second
C7_Witness ==
    /\ BatchReturned /\ Len(batch.list) = 23 /\ batch.chunks = 3
    /\ \E k \in DOMAIN tasks : chunkOf(k) = 2 /\ ~tasks[k].result.success

\* C8: no venue is evaluated twice, and when the run returns every venue of
\* the fetched list has been evaluated once, whatever failed on the way, and
\* total = updated + failed = the length of the list.
C8_EveryVenueOnce ==
    /\ \A v \in DOMAIN evals : evals[v] <= 1
    /\ BatchReturned
        => /\ \A k \in DOMAIN batch.list : evals[batch.list[k]] = 1
           /\ summary.total = Len(batch.list)
           /\ summary.updated + summary.failed = summary.total

\* a run over 23 venues has returned with a failure in its first chunk and
\* results for the venues of the third
C8_Witness ==
    /\ BatchReturned /\ Len(batch.list) = 23 /\ summary.failed = 1
    /\ \E k \in DOMAIN tasks : chunkOf(k) = 1 /\ ~tasks[k].result.success
    /\ \A k \in DOMAIN tasks : chunkOf(k) = 3 => tasks[k].result.success

\* C9: in the summary, failed is the number of venues whose evaluation had a
\* Store call fail, a read during the score calculation included, and none
\* of them counts as updated.
C9_FailedCountsFaults ==
    BatchReturned
        => /\ summary.failed = Cardinality(faulted)
           /\ summary.updated = summary.total - Cardinality(faulted)

\* C10: updateAllVenues never raises: it always returns a summary of counts.
C10_NeverRaises ==
    batch.phase = "done" => (~batch.raised /\ summary # NoSummary)

\* C11: the hot venues of the returned summary are exactly the venues whose
\* callback succeeded with a pulse of at least 7, each once and with that
\* pulse, in order of falling pulse; a failed venue is not among them.
C11_HotVenuesExact ==
    BatchReturned
        => /\ \A k \in DOMAIN tasks :
                (tasks[k].result.success /\ tasks[k].result.pulse >= 7 * Unit)
                    <=> \E j \in DOMAIN summary.hotVenues :
                            /\ summary.hotVenues[j].id = batch.list[k]
                            /\ summary.hotVenues[j].pulse = tasks[k].result.pulse
           /\ \A j \in DOMAIN summary.hotVenues :
                \E k \in DOMAIN tasks : summary.hotVenues[j].id = batch.list[k]
           /\ \A i, j \in DOMAIN summary.hotVenues :
                i < j => /\ summary.hotVenues[i].pulse >= summary.hotVenues[j].pulse
                         /\ summary.hotVenues[i].id # summary.hotVenues[j].id

\* a returned run over 23 venues with a failed venue and hot venues of
\* different pulses
C11_Witness ==
    /\ BatchReturned /\ Len(batch.list) = 23 /\ summary.failed >= 1
    /\ Len(summary.hotVenues) >= 3
    /\ summary.hotVenues[1].pulse > summary.hotVenues[Len(summary.hotVenues)].pulse

(***************************************************************************)
(* PulseBatchUpdateService.updateVenue                                     *)
(***************************************************************************)
\* an update without the .eq('id', venueId) filter: every row is written
updateEveryVenue(venueId, out, fault) ==
    IF out.raised \/ fault = "persist"
    THEN [raised |-> TRUE, pulse |-> out.pulse, venues |-> venues,
          history |-> history]
    ELSE [raised |-> FALSE, pulse |-> out.pulse,
          venues |-> [v \in DOMAIN venues |-> persisted(venues[v], out.pulse)],
          history |-> history]

\* updateVenue from the return of calculatePulse on: the update matches the
\* row of the venue, if the table has one; nothing here catches a raise
updateVenue(venueId, out, fault) ==
    IF out.raised \/ fault = "persist"
    THEN [raised |-> TRUE, pulse |-> out.pulse, venues |-> venues,
          history |-> history]
    ELSE [raised |-> FALSE, pulse |-> out.pulse,
          venues |-> IF venueId \in DOMAIN venues
                     THEN [venues EXCEPT ![venueId] = persisted(@, out.pulse)]
                     ELSE venues,
          history |-> history]

\* what the queries of getVenueMetrics read in the refresh runs
UpdateQueries ==
    {q \in MetricQueries :
        /\ q.line_time_minutes = null /\ q.vibePhotosCount = 0 /\ q.events = 0
        /\ q.sentiment = 80 /\ q.checkInsLast30Min = 3}

UpdateResponses == {r \in ProviderResponses : r.kind = "ok" /\ r.current \in {0, 95}}

\* Pulse.updateVenue(venueId), with everything the environment decides
UpdateVenue ==
    /\ result.op = "none"
    /\ \E venueId \in {0, 1, 2, 3}, fault \in {"none", "getVenue", "persist"},
          q \in UpdateQueries, response \in UpdateResponses, t \in EvaluationTimes :
        LET calc == calculatePulse(venueId, q, TRUE, response, t[1], t[2],
                                   calculationFault(fault))
            out == updateVenue(venueId, calc, fault)
        IN  /\ result.op = "none"
            /\ result' = [op |-> "updateVenue", venueId |-> venueId,
                          raised |-> out.raised, threw |-> calc.threw,
                          pulse |-> out.pulse, google |-> calc.google,
                          community |-> calc.community,
                          sample |-> calc.sample,
                          hour |-> t[1], day |-> t[2]]
            /\ venues' = out.venues
            /\ history' = out.history
            /\ calcLog' = calc.calcLog
            /\ cache' = calc.cache
            /\ UNCHANGED <<now, reports, pings, social, points, queued>>
            /\ UNCHANGED <<batch, tasks, results, summary, evals, faulted>>

NextUpdateVenue == UpdateVenue

SpecUpdateVenue == Init /\ [][NextUpdateVenue]_vars

\* C12: when updateVenue returns for a venue of the table, the returned
\* pulse has been persisted to the row of the venue and a history row for
\* it has been appended, as updateAllVenues does for each venue.
C12_UpdateVenuePersistsAndLogs ==
    (result.op = "updateVenue" /\ ~result.raised /\ result.venueId \in DOMAIN venues)
        => /\ venues[result.venueId].pulse = result.pulse.value
           /\ venues[result.venueId].pulse_confidence = result.pulse.confidence
           /\ venues[result.venueId].pulse_data_source = result.pulse.dataSource
           /\ BagIn(historyRow(result.venueId, result.pulse), history)

(***************************************************************************)
(* GoogleBusynessService.getBusyness, called again and again as time       *)
(* passes                                                                  *)
(***************************************************************************)
MaxClock == 12

NoLookup ==
    [op |-> "none", placeId |-> 0, apiKey |-> FALSE, kind |-> "none",
     fault |-> "none", data |-> NoData, called |-> FALSE, raised |-> FALSE,
     at |-> 0]

InitBusyness ==
    /\ now = 0
    /\ venues = EngineVenues
    /\ reports = {}
    /\ pings = {}
    /\ social = {}
    /\ cache = [p \in PlaceIds |-> NoEntry]
    /\ calcLog = EmptyBag
    /\ points = EmptyBag
    /\ queued = {}
    /\ result = NoLookup
    /\ BatchIdle

\* a minute passes
Minute ==
    /\ now < MaxClock
    /\ now' = now + 1
    /\ UNCHANGED <<cache, reports, pings, social, calcLog, venues, points, queued,
                   result>>
    /\ UNCHANGED batchVars

\* getBusyness(placeId): whatever its Store calls or the provider do, the
\* catch of getBusyness leaves nothing to raise
GetBusyness ==
    \E placeId \in PlaceIds, apiKey \in BOOLEAN, response \in ProviderResponses,
       fault \in {"none", "cacheRead", "cacheWrite"} :
        LET out == getBusyness(placeId, apiKey, response, fault)
        IN  /\ cache' = out.cache
            /\ result' = [op |-> "getBusyness", placeId |-> placeId,
                          apiKey |-> apiKey, kind |-> response.kind,
                          fault |-> fault, data |-> out.data,
                          called |-> out.called, raised |-> FALSE, at |-> now]
            /\ UNCHANGED <<now, reports, pings, social, calcLog, venues, points,
                           queued>>
            /\ UNCHANGED batchVars

NextBusyness == Minute \/ GetBusyness

SpecBusyness == InitBusyness /\ [][NextBusyness]_vars

\* a step that is a call of getBusyness
BusynessCall == now' = now /\ result'.op = "getBusyness"

\* the cache entry of the call's place id is at most 5 minutes old
FreshEntry ==
    /\ cache[result'.placeId].present
    /\ now - cache[result'.placeId].fetched_at <= 5

CacheFirst ==
    (BusynessCall /\ result'.fault = "none")
        => /\ FreshEntry
                => /\ result'.data = cache[result'.placeId].busyness_data
                   /\ ~result'.called
                   /\ cache' = cache
           /\ (cache[result'.placeId].present /\ ~FreshEntry)
                => /\ result'.called = result'.apiKey
                   /\ result'.data # cache[result'.placeId].busyness_data
                   /\ result'.data.present => result'.data.lastUpdated = now

\* C13: getBusyness consults the cache first: an entry fetched at most 5
\* minutes ago is returned without a call of the provider, and the sample of
\* an older entry is never returned: the call goes on to the fetch as if the
\* entry were absent.
C13_CacheFirst == [][CacheFirst]_vars

\* a sample fetched exactly 5 minutes before was returned from the cache
C13_Witness ==
    /\ result.op = "getBusyness" /\ result.at = now /\ result.fault = "none"
    /\ result.data.present /\ ~result.called
    /\ now - result.data.lastUpdated = 5

NullWritesNothing ==
    BusynessCall
        => /\ ~result'.raised
           /\ (~FreshEntry /\ (~result'.apiKey \/ result'.kind # "ok"))
                => ~result'.data.present
           /\ ~result'.data.present => cache' = cache

\* C14: getBusyness never raises; when the fetch is reached and the provider
\* call fails, answers an error or a payload without place results, or the
\* API key is missing, it returns null; and whenever it returns null the
\* cache is left as it was.
C14_NullNeverCached == [][NullWritesNothing]_vars

\* the provider failed over an expired entry: null was returned and the
\* entry is still there
C14_Witness ==
    /\ result.op = "getBusyness" /\ result.at = now /\ result.kind = "throw"
    /\ result.apiKey /\ ~result.data.present /\ ~result.raised
    /\ cache[result.placeId].present
    /\ now - cache[result.placeId].fetched_at > 5

(***************************************************************************)
(* CommunityDataService.getConsensus and calculateInfluence over the rows  *)
(* a venue can have                                                        *)
(***************************************************************************)
MaxVotes == 3

\* votes in the window as <<dead, chill, busy, packed>>
VoteCounts ==
    {<<d, c, b, p>> : d \in 0..MaxVotes, c \in 0..MaxVotes, b \in 0..MaxVotes,
                      p \in 0..MaxVotes}

\* the wait the reports of each label carry, in the same order
WaitPatterns ==
    { <<null, null, null, null>>, <<0, 0, 0, 0>>, <<0, 20, null, 35>>,
      <<null, 0, 40, null>> }

\* the reports of venue 2: the votes at the far end of the window, and
\* stale reports one minute older
windowReports(c, w, stale, t) ==
    mkReports(2, 1, c[1], "dead", w[1], t - 60)
    \cup mkReports(2, 101, c[2], "chill", w[2], t - 60)
    \cup mkReports(2, 201, c[3], "busy", w[3], t - 60)
    \cup mkReports(2, 301, c[4], "packed", w[4], t - 60)
    \cup mkReports(2, 401, stale, "packed", 50, t - 61)

NoConsensusCall ==
    [op |-> "none", venueId |-> 0,
     consensus |-> aggregate({}, {}, {}),
     influence |-> [influence |-> 0, adjustment |-> 0]]

InitConsensus ==
    /\ now = 120
    /\ venues = EngineVenues
    /\ \E c \in VoteCounts, w \in WaitPatterns, stale \in {0, 2} :
         reports = windowReports(c, w, stale, now)
    /\ \E n \in {0, 20} : pings = mkPings(2, n, now - 10)
    /\ \E n \in {0, 5} : social = mkSocial(2, n, now - 10)
    /\ cache = [p \in PlaceIds |-> NoEntry]
    /\ calcLog = EmptyBag
    /\ points = EmptyBag
    /\ queued = {}
    /\ result = NoConsensusCall
    /\ BatchIdle

\* Pulse.getCommunityConsensus(venueId), and the influence the engine takes
\* of the consensus
GetConsensus ==
    \E venueId \in {2, 3} :
        /\ result.op = "none"
        /\ result' = [op |-> "getConsensus", venueId |-> venueId,
                      consensus |-> getConsensus(venueId, 60),
                      influence |-> calculateInfluence(getConsensus(venueId, 60))]
        /\ UNCHANGED <<now, cache, reports, pings, social, calcLog, venues, points,
                       queued>>
        /\ UNCHANGED batchVars

NextConsensus == GetConsensus

SpecConsensus == InitConsensus /\ [][NextConsensus]_vars

(***************************************************************************)
(* Properties of getConsensus and calculateInfluence                       *)
(***************************************************************************)
ConsensusCalled == result.op = "getConsensus"

Labels == {"dead", "chill", "busy", "packed"}

\* the reports of the venue in the trailing hour
inWindow(venueId) ==
    {r \in reports : r.venue_id = venueId /\ r.created_at >= now - 60}

votes(venueId, label) ==
    Cardinality({r \in inWindow(venueId) : r.vibe_level = label})

\* the labels with the most votes
topLabels(venueId) ==
    {a \in Labels : \A l \in Labels : votes(venueId, l) <= votes(venueId, a)}

\* C15: when two or more labels tie for the highest vote count in the
\* window, the consensus label is null (so busy 3, chill 3, packed 2, dead 2
\* gives none).
C15_TieYieldsNull ==
    (ConsensusCalled /\ Cardinality(topLabels(result.venueId)) >= 2)
        => result.consensus.consensusVibe = "null"

\* C16: a consensus label that is not null has the most votes of the four
\* labels and at least 30% of all votes in the window; when no label has 30%
\* of them, or there are no reports, the label is null.
C16_ConsensusIsMaxAbove30 ==
    ConsensusCalled
        => /\ result.consensus.vibeReports = Cardinality(inWindow(result.venueId))
           /\ result.consensus.consensusVibe # "null"
                => /\ result.consensus.consensusVibe \in topLabels(result.venueId)
                   /\ 10 * votes(result.venueId, result.consensus.consensusVibe)
                        >= 3 * Cardinality(inWindow(result.venueId))
           /\ (\A l \in Labels : 10 * votes(result.venueId, l)
                                    < 3 * Cardinality(inWindow(result.venueId)))
                => result.consensus.consensusVibe = "null"
           /\ inWindow(result.venueId) = {}
                => result.consensus.consensusVibe = "null"

\* busy wins with 3 votes over 2 for packed while two more packed reports
\* lie just outside the window
C16_Witness ==
    /\ ConsensusCalled /\ result.consensus.consensusVibe = "busy"
    /\ votes(result.venueId, "busy") = 3 /\ votes(result.venueId, "packed") = 2
    /\ \E r \in reports : r.venue_id = result.venueId /\ r.created_at < now - 60

\* the in-window reports that carry a wait value
waitCarriers(venueId) ==
    {r \in inWindow(venueId) : r.wait_time_minutes # null}

\* C17: the average wait of the consensus is the mean of the waits of all
\* in-window reports that carry one, waits of 0 included, and is null only
\* when none carries one.
C17_AverageWaitIsMean ==
    ConsensusCalled
        => /\ (result.consensus.averageWaitTime.den = 0)
                <=> (waitCarriers(result.venueId) = {})
           /\ result.consensus.averageWaitTime.num
                * Cardinality(waitCarriers(result.venueId))
              = sumWait(waitCarriers(result.venueId))
                * result.consensus.averageWaitTime.den

\* C18: the influence is a weight in [0, 1] and an adjustment in [-2, 2];
\* both are 0 below 3 data points; from 3 on the weight is
\* min(0.4, dataPoints / 20), raised to min(0.6, weight + 0.2) exactly when
\* there is a consensus label and at least 5 reports.
C18_InfluenceShape ==
    ConsensusCalled
        => /\ result.influence.influence \in 0..1000
           /\ result.influence.adjustment >= -(2 * Unit)
           /\ result.influence.adjustment <= 2 * Unit
           /\ result.consensus.dataPoints < 3
                => (result.influence.influence = 0 /\ result.influence.adjustment = 0)
           /\ result.consensus.dataPoints >= 3
                => result.influence.influence =
                     IF result.consensus.consensusVibe # "null"
                        /\ result.consensus.vibeReports >= 5
                     THEN Min(600, Min(400, 50 * result.consensus.dataPoints) + 200)
                     ELSE Min(400, 50 * result.consensus.dataPoints)

\* a consensus over many data points: the weight is raised to 0.6; and the
\* adjustment is cut to 2
C18_Witness ==
    /\ ConsensusCalled /\ result.consensus.dataPoints >= 8
    /\ result.consensus.consensusVibe = "packed" /\ result.consensus.vibeReports >= 5
    /\ result.consensus.uniqueDevices >= 20
    /\ result.influence.influence = 600 /\ result.influence.adjustment = 2 * Unit

(***************************************************************************)
(* End to end: a non-partner venue without a place id and four "packed"    *)
(* reports                                                                 *)
(***************************************************************************)
\* calculate returned for venue 3 (not onboarded, no place id) with no step
\* raising, while the Store held exactly four reports of the last hour for
\* it, all "packed" and without a wait time, and no pings or social signals
PackedFourCall ==
    /\ Called
    /\ result.venueId = 3
    /\ result.threw = "none"
    /\ ~venues[3].spree_onboarded
    /\ venues[3].google_place_id = null
    /\ Cardinality({r \in reports : r.venue_id = 3 /\ r.created_at >= now - 60}) = 4
    /\ \A r \in reports :
         (r.venue_id = 3 /\ r.created_at >= now - 60)
             => (r.vibe_level = "packed" /\ r.wait_time_minutes = null)
    /\ {p \in pings : p.venue_id = 3 /\ p.created_at >= now - 60} = {}
    /\ {x \in social : x.venue_id = 3 /\ x.created_at >= now - 60} = {}

PackedFourConsensus ==
    /\ getConsensus(3, 60).dataPoints = 4
    /\ getConsensus(3, 60).consensusVibe = "packed"
    /\ calculateInfluence(getConsensus(3, 60)).influence = 200
    /\ calculateInfluence(getConsensus(3, 60)).adjustment = 2 * Unit

\* the hours and days whose time multiplier is below 1: 3am to 5pm, and
\* 1am on Monday to Wednesday
Penalised(hour, day) ==
    (hour >= 3 /\ hour < 17) \/ (hour = 1 /\ day >= 1 /\ day <= 3)

MetricInputs ==
    { [activeCheckIns |-> a, checkInTrend |-> tr, reportedWaitTime |-> w,
       recentSentiment |-> s, vibePhotosCount |-> p,
       hourOfDay |-> t[1], dayOfWeek |-> t[2], isSpecialEvent |-> e] :
         a \in {0, 12, 100},
         tr \in {"surging", "increasing", "stable", "decreasing"},
         w \in {null, 0, 35, 45}, s \in {-50, 31, 80}, p \in {0, 6, 10},
         t \in EvaluationTimes, e \in BOOLEAN }

NoComposition(metrics) ==
    [op |-> "none", metrics |-> metrics, activity |-> 0, momentumBoost |-> 0,
     vibeBoost |-> 0, waitBoost |-> 0, boosted |-> 0, modified |-> 0, value |-> 0]

InitCompose ==
    /\ now = 120
    /\ venues = EngineVenues
    /\ reports = {}
    /\ pings = {}
    /\ social = {}
    /\ cache = [p \in PlaceIds |-> NoEntry]
    /\ calcLog = EmptyBag
    /\ points = EmptyBag
    /\ queued = {}
    /\ \E metrics \in MetricInputs : result = NoComposition(metrics)
    /\ BatchIdle

\* calculator.calculateFromMetrics(metrics)
CalculateFromMetrics ==
    /\ result.op = "none"
    /\ result' =
         [op |-> "calculateFromMetrics",
          metrics |-> result.metrics,
          activity |-> calculateActivityScore(result.metrics.activeCheckIns),
          momentumBoost |-> calculateMomentumBoost(result.metrics.checkInTrend),
          vibeBoost |-> calculateVibeBoost(result.metrics.recentSentiment,
                                           result.metrics.vibePhotosCount),
          waitBoost |-> calculateWaitTimeBoost(result.metrics.reportedWaitTime),
          boosted |-> boostedScore(result.metrics),
          modified |-> applyTimeModifiers(boostedScore(result.metrics),
                                          result.metrics.hourOfDay,
                                          result.metrics.dayOfWeek),
          value |-> calculateFromMetrics(result.metrics).value]
    /\ UNCHANGED <<now, cache, reports, pings, social, calcLog, venues, points,
                   queued>>
    /\ UNCHANGED batchVars

NextCompose == CalculateFromMetrics

SpecCompose == InitCompose /\ [][NextCompose]_vars

(***************************************************************************)
(* Properties of calculateFromMetrics                                      *)
(***************************************************************************)
\* calculateFromMetrics returned for 12 active check-ins, a surging trend,
\* sentiment 0.8, 6 photos, a 35 minute wait, 11pm on a Friday, no special
\* event
RichTelemetryCall ==
    /\ result.op = "calculateFromMetrics"
    /\ result.metrics.activeCheckIns = 12
    /\ result.metrics.checkInTrend = "surging"
    /\ result.metrics.recentSentiment = 80
    /\ result.metrics.vibePhotosCount = 6
    /\ result.metrics.reportedWaitTime = 35
    /\ result.metrics.hourOfDay = 23
    /\ result.metrics.dayOfWeek = 5
    /\ ~result.metrics.isSpecialEvent

\* C20 (as claimed): for 12 active check-ins, trend surging, sentiment 0.8,
\* artifact count 6, wait time 35 minutes, hour 23 on a Friday and no
\* special event, the score is base 5.5 plus momentum 1.0, vibe boost 1.0
\* and wait boost 1.5, that is 9.0, times 1.15, that is 10.35, and the
\* clamped value 10.0 is returned.
C20_ComposeExample ==
    RichTelemetryCall =>
        /\ result.activity = 55 * Tenth
        /\ result.momentumBoost = 10 * Tenth
        /\ result.vibeBoost = 10 * Tenth
        /\ result.waitBoost = 15 * Tenth
        /\ result.boosted = 90 * Tenth
        /\ result.modified = 1035 * (Unit \div 100)
        /\ result.value = 10 * Unit

\* C20 (amended): for those metrics the score is base 5.5 plus momentum
\* 1.0, vibe boost 0.8 (0.5 for the sentiment, 0.3 for the photos) and wait
\* boost 1.5, that is 8.8, times 1.15, that is 10.12, and the clamped value
\* 10.0 is returned.
C20_ComposeExampleAmended ==
    RichTelemetryCall =>
        /\ result.activity = 55 * Tenth
        /\ result.momentumBoost = 10 * Tenth
        /\ result.vibeBoost = 8 * Tenth
        /\ result.waitBoost = 15 * Tenth
        /\ result.boosted = 88 * Tenth
        /\ result.modified = 1012 * (Unit \div 100)
        /\ result.value = 10 * Unit

\* the example's metrics composed into the clamped 10.0
C20_Witness ==
    /\ RichTelemetryCall
    /\ result.modified > 10 * Unit
    /\ result.value = 10 * Unit

(***************************************************************************)
(* The calculator's pure functions on their own: calculateConfidence,      *)
(* calculateActivityScore and convertGoogleToSpree.  The input is a pair   *)
(* x <= y of counts or levels and a data age; a call records what the      *)
(* function returns for the input(s).                                      *)
(***************************************************************************)
MaxLevel == 101

DataAges == {14, 15, 60, 61, 120, 121}

DataSources == {"spree", "community", "google"}

NoCalculation(x, y, age) == [op |-> "none", x |-> x, y |-> y, age |-> age, out |-> <<>>]

InitCalculator ==
    /\ now = 120
    /\ venues = EngineVenues
    /\ reports = {}
    /\ pings = {}
    /\ social = {}
    /\ cache = [p \in PlaceIds |-> NoEntry]
    /\ calcLog = EmptyBag
    /\ points = EmptyBag
    /\ queued = {}
    /\ \E x \in 0..MaxLevel, y \in 0..MaxLevel, age \in DataAges :
         /\ x <= y
         /\ result = NoCalculation(x, y, age)
    /\ BatchIdle

\* the call returned `out`
Calculated(op, out) ==
    /\ result.op = "none"
    /\ result' = [result EXCEPT !.op = op, !.out = out]
    /\ UNCHANGED <<now, cache, reports, pings, social, calcLog, venues, points,
                   queued>>
    /\ UNCHANGED batchVars

\* calculateConfidence(x, age, source), for each source
CalculateConfidence ==
    Calculated("calculateConfidence",
               [s \in DataSources |-> calculateConfidence(result.x, result.age, s)])

\* calculateActivityScore(x) and calculateActivityScore(y)
CalculateActivityScore ==
    Calculated("calculateActivityScore",
               <<calculateActivityScore(result.x), calculateActivityScore(result.y)>>)

\* convertGoogleToSpree(x) and convertGoogleToSpree(y)
ConvertGoogleToSpree ==
    Calculated("convertGoogleToSpree",
               <<convertGoogleToSpree(result.x), convertGoogleToSpree(result.y)>>)

\* calculateConfidence(x, age, source), for each age and source
CalculateConfidenceByAge ==
    Calculated("calculateConfidenceByAge",
               [a \in DataAges |->
                  [s \in DataSources |-> calculateConfidence(result.x, a, s)]])

NextCalculator ==
    \/ CalculateConfidence
    \/ CalculateActivityScore
    \/ ConvertGoogleToSpree
    \/ CalculateConfidenceByAge

SpecCalculator == InitCalculator /\ [][NextCalculator]_vars

(***************************************************************************)
(* Properties of the calculator's pure functions                           *)
(***************************************************************************)
\* C21: for every data-point count, age and source, calculateConfidence
\* returns a value in [0.1, 1], and for equal count and age its value for
\* the source 'spree' is at least its value for the source 'google'.
C21_ConfidenceRange ==
    result.op = "calculateConfidence" =>
        /\ \A s \in DataSources : result.out[s] >= 100 /\ result.out[s] <= ConfUnit
        /\ result.out["spree"] >= result.out["google"]

\* 20 or more fresh data points: 'spree' is cut to 1 (from 1.05), 'google'
\* is 0.75
C21_Witness ==
    /\ result.op = "calculateConfidence"
    /\ result.x >= 20
    /\ result.age < 15
    /\ result.out["spree"] = ConfUnit
    /\ result.out["google"] = 750

\* C22: calculateActivityScore is monotone non-decreasing in the active
\* count with values in [3.0, 9.0]; convertGoogleToSpree is monotone
\* non-decreasing over the levels 0..100 with values in [3.0, 9.5] and
\* returns exactly 3.0 at level 0.
C22_ScalesMonotone ==
    /\ result.op = "calculateActivityScore" =>
         /\ result.out[1] <= result.out[2]
         /\ result.out[1] >= 30 * Tenth
         /\ result.out[2] <= 90 * Tenth
    /\ (result.op = "convertGoogleToSpree" /\ result.y <= 100) =>
         /\ result.out[1] <= result.out[2]
         /\ result.out[1] >= 30 * Tenth
         /\ result.out[2] <= 95 * Tenth
         /\ (result.x = 0 => result.out[1] = 30 * Tenth)

\* the two ends of the scale: level 0 converts to 3.0 and level 100 to 9.5
C22_Witness ==
    /\ result.op = "convertGoogleToSpree"
    /\ result.x = 0
    /\ result.y = 100
    /\ result.out = <<30 * Tenth, 95 * Tenth>>

(***************************************************************************)
(* Properties of the two paths of calculatePulse                           *)
(***************************************************************************)
\* calculate returned for a partner venue and no step raised
SpreeCall ==
    /\ Called
    /\ result.venueId \in DOMAIN venues
    /\ venues[result.venueId].spree_onboarded
    /\ result.threw = "none"

\* the calculations log holds the row of this evaluation: the venue, the
\* returned value, source and confidence, and the metrics read for this
\* hour and day whose calculateFromMetrics is the returned value
AuditRowWritten ==
    \E row \in BagToSet(calcLog) :
        /\ row.venue_id = result.venueId
        /\ row.calculated_pulse = result.pulse.value
        /\ row.data_source = result.pulse.dataSource
        /\ row.confidence = result.pulse.confidence
        /\ row.metrics.venueId = result.venueId
        /\ row.metrics.hourOfDay = result.hour
        /\ row.metrics.dayOfWeek = result.day
        /\ calculateFromMetrics(row.metrics).value = result.pulse.value

\* C23: when calculate evaluates a partner (spree_onboarded) venue and no
\* step fails, the returned pulse has source 'spree', confidence exactly
\* 0.95 and the value calculateFromMetrics gives for the venue's metrics, a
\* row of pulse_calculations_log has been written when it returns, and
\* neither the Google busyness service nor the community consensus was
\* consulted.
C23_SpreePath ==
    SpreeCall =>
        /\ result.pulse.dataSource = "spree"
        /\ result.pulse.confidence = 950
        /\ AuditRowWritten
        /\ ~result.google
        /\ ~result.community
        /\ ~result.raised

\* a partner venue scored 10.0 with its row in the log
C23_Witness ==
    /\ SpreeCall
    /\ result.pulse.value = 10 * Unit
    /\ BagCardinality(calcLog) = 1
    /\ AuditRowWritten

\* calculate returned for a venue that is not a partner, and neither the
\* venue read nor a read of the community tables raised
NonPartnerCall ==
    /\ Called
    /\ result.venueId \in DOMAIN venues
    /\ ~venues[result.venueId].spree_onboarded
    /\ result.threw \notin {"getVenue", "reports", "pings", "social"}

\* getBusyness was asked and answered a sample with a current level above 0
UsableSample ==
    /\ venues[result.venueId].google_place_id # null
    /\ result.google
    /\ result.sample.present
    /\ result.sample.currentBusyness > 0

\* the pulse steps 2 and 3 make of a base, confidence and source
continuedFrom(basePulse, confidence, dataSource) ==
    timeStep(communityStep([basePulse |-> basePulse, confidence |-> confidence,
                            dataSource |-> dataSource],
                           getConsensus(result.venueId, 60),
                           calculateInfluence(getConsensus(result.venueId, 60))),
             result.hour, result.day)

\* C24: on the non-partner path the Google sample replaces the base (via
\* convertGoogleToSpree, with confidence 0.6 and source 'google') only when
\* the venue has a place id and getBusyness returns a sample with current
\* level > 0; when the provider fails, returns null or returns current
\* level 0, the evaluation is not turned into the default pulse but goes on
\* from base 5.0, confidence 0.5, source 'estimated' into the community
\* step.
C24_GoogleStep ==
    NonPartnerCall =>
        /\ result.threw = "none"
        /\ ~result.raised
        /\ result.community
        /\ result.google <=> (venues[result.venueId].google_place_id # null)
        /\ UsableSample =>
             result.pulse
               = continuedFrom(convertGoogleToSpree(result.sample.currentBusyness),
                               600, "google")
        /\ ~UsableSample =>
             /\ result.pulse = continuedFrom(5 * Unit, 500, "estimated")
             /\ ~IsDefaultPulse(result.pulse)

\* the provider gave no sample for a venue with a place id, and the
\* evaluation went on from the estimated base: with no community data the
\* confidence is 0.5 and the source 'estimated'
C24_Witness ==
    /\ NonPartnerCall
    /\ venues[result.venueId].google_place_id # null
    /\ result.google
    /\ ~result.sample.present
    /\ result.pulse = continuedFrom(5 * Unit, 500, "estimated")
    /\ result.pulse.confidence = 500
    /\ result.pulse.dataSource = "estimated"

\* what step 1 left: the converted sample, or the estimate
stepOneBase ==
    IF UsableSample THEN convertGoogleToSpree(result.sample.currentBusyness)
    ELSE 5 * Unit
stepOneConfidence == IF UsableSample THEN 600 ELSE 500
stepOneSource == IF UsableSample THEN "google" ELSE "estimated"

\* the data points, weight and adjustment of the venue's consensus
communityPoints == getConsensus(result.venueId, 60).dataPoints
communityWeight == calculateInfluence(getConsensus(result.venueId, 60)).influence
communityAdjustment == calculateInfluence(getConsensus(result.venueId, 60)).adjustment

\* the returned value for a base after step 2: time modifier, clamp, round
finalValue(basePulse) ==
    round1(clampPulse(applyTimeModifiers(basePulse, result.hour, result.day)))

\* C25: on the non-partner path community data changes the score only when
\* the consensus has at least 3 data points: the base becomes
\* base + adjustment * w and the confidence min(0.8, confidence + 0.3 * w);
\* the source becomes 'community' exactly when the data points are at least
\* 10, also when a Google sample contributed, and with 3 to 9 data points it
\* stays 'google' or 'estimated'; with fewer than 3 data points base,
\* confidence and source are unchanged by this step.
C25_CommunityStep ==
    (NonPartnerCall /\ result.threw = "none") =>
        /\ communityPoints >= 3 =>
             /\ result.pulse.value
                  = finalValue(stepOneBase
                               + (communityAdjustment * communityWeight) \div ConfUnit)
             /\ result.pulse.confidence
                  = Min(800, stepOneConfidence + (3 * communityWeight) \div 10)
        /\ communityPoints >= 10 => result.pulse.dataSource = "community"
        /\ communityPoints < 10 => result.pulse.dataSource = stepOneSource
        /\ communityPoints < 3 =>
             /\ result.pulse.value = finalValue(stepOneBase)
             /\ result.pulse.confidence = stepOneConfidence

\* a Google sample contributed and ten or more data points made the source
\* 'community'
C25_Witness ==
    /\ NonPartnerCall
    /\ result.threw = "none"
    /\ UsableSample
    /\ communityPoints >= 10
    /\ communityAdjustment # 0
    /\ result.pulse.dataSource = "community"
    /\ result.pulse.confidence > stepOneConfidence

(***************************************************************************)
(* CommunityDataService.submitVibeReport, calls overlapping.  Every await  *)
(* of the method is a step of its own: the rate-limit query, the insert,   *)
(* awardPoints and queuePulseUpdate; calls interleave between them.        *)
(* tasks[c] is where call c stands.  A row carries the id of the call      *)
(* that inserted it (the table's generated primary key).                   *)
(***************************************************************************)
Callers == {1, 2, 3}

CallInstants == {t \in Instants : t % 60 <= 1}

CallInputs == {r \in ReportInputs : r.venue_id = 2}

NotCalled == [pc |-> "idle", report |-> CHOOSE r \in CallInputs : TRUE,
              error |-> "none"]

InitCalls ==
    /\ now = 0
    /\ venues = EngineVenues
    /\ reports = {}
    /\ pings = {}
    /\ social = {}
    /\ cache = [p \in PlaceIds |-> NoEntry]
    /\ calcLog = EmptyBag
    /\ points = EmptyBag
    /\ queued = {}
    /\ result = NoCall
    /\ history = EmptyBag
    /\ batch = IdleBatch
    /\ tasks = [c \in Callers |-> NotCalled]
    /\ results = <<>>
    /\ summary = NoSummary
    /\ evals = [v \in DOMAIN venues |-> 0]
    /\ faulted = {}

callVars == <<cache, pings, social, calcLog, venues, result, history, batch,
              results, summary, evals, faulted>>

Elapse ==
    /\ \E t \in CallInstants : t > now /\ now' = t
    /\ UNCHANGED <<reports, points, queued, tasks>>
    /\ UNCHANGED callVars

\* the insert that looks for a recent row of the pair once more
insertUnlessExisting(c, report) ==
    IF \E r \in reports : /\ r.venue_id = report.venue_id
                          /\ r.user_id = report.user_id
                          /\ r.created_at >= oneHourAgo
    THEN reports
    ELSE reports \cup {[id |-> c, venue_id |-> report.venue_id,
                        user_id |-> report.user_id,
                        vibe_level |-> report.vibe_level,
                        wait_time_minutes |-> report.wait_time_minutes,
                        created_at |-> now]}

\* the table after the insert of call c: the report, created_at set to the
\* time of the insert, under the row's own id
insertReport(c, report) ==
    reports \cup {[id |-> c, venue_id |-> report.venue_id,
                   user_id |-> report.user_id,
                   vibe_level |-> report.vibe_level,
                   wait_time_minutes |-> report.wait_time_minutes,
                   created_at |-> now]}

\* the call starts: the rate-limit query and the `if (existing)` after it
CheckRateLimit(c) ==
    /\ tasks[c].pc = "idle"
    /\ \E report \in CallInputs :
         tasks' = [tasks EXCEPT ![c] =
                     [pc |-> IF existingReport(report) THEN "raised" ELSE "admitted",
                      report |-> report,
                      error |-> IF existingReport(report) THEN "RateLimited"
                                ELSE "none"]]
    /\ UNCHANGED <<now, reports, points, queued>>
    /\ UNCHANGED callVars

\* the insert, and `if (error) throw error`
InsertReport(c) ==
    /\ tasks[c].pc = "admitted"
    /\ \E fault \in {"none", "insert"} :
         IF fault = "insert"
         THEN /\ tasks' = [tasks EXCEPT ![c].pc = "raised", ![c].error = "insert"]
              /\ reports' = reports
         ELSE /\ tasks' = [tasks EXCEPT ![c].pc = "inserted"]
              /\ reports' = insertReport(c, tasks[c].report)
    /\ UNCHANGED <<now, points, queued>>
    /\ UNCHANGED callVars

\* await this.awardPoints(report.user_id, 5, 'vibe_report')
AwardPoints(c) ==
    /\ tasks[c].pc = "inserted"
    /\ \E fault \in {"none", "points"} :
         IF fault = "points"
         THEN /\ tasks' = [tasks EXCEPT ![c].pc = "raised", ![c].error = "points"]
              /\ points' = points
         ELSE /\ tasks' = [tasks EXCEPT ![c].pc = "awarded"]
              /\ points' = points (+) SetToBag({pointsRow(tasks[c].report.user_id, 5)})
    /\ UNCHANGED <<now, reports, queued>>
    /\ UNCHANGED callVars

\* await this.queuePulseUpdate(report.venue_id), and the return
QueuePulseUpdate(c) ==
    /\ tasks[c].pc = "awarded"
    /\ tasks' = [tasks EXCEPT ![c].pc = "done"]
    /\ queued' = queuePulseUpdate(tasks[c].report.venue_id)
    /\ UNCHANGED <<now, reports, points>>
    /\ UNCHANGED callVars

NextCalls ==
    \/ Elapse
    \/ \E c \in Callers : CheckRateLimit(c)
    \/ \E c \in Callers : InsertReport(c)
    \/ \E c \in Callers : AwardPoints(c)
    \/ \E c \in Callers : QueuePulseUpdate(c)

SpecCalls == InitCalls /\ [][NextCalls]_vars

(***************************************************************************)
(* Properties of overlapping submitVibeReport calls                        *)
(***************************************************************************)
\* the rows of the pair of a report that lie within the trailing hour
recentOf(report) ==
    {r \in reports : /\ r.venue_id = report.venue_id
                     /\ r.user_id = report.user_id
                     /\ now - r.created_at <= 60}

\* the row call c inserted
rowsOf(c) == {r \in reports : r.id = c}

\* call c has carried out its insert
Inserted(c) ==
    tasks[c].pc \in {"inserted", "awarded", "done"} \/ tasks[c].error = "points"

\* the insert of an admitted call adds its row whatever the table holds by
\* then
InsertAddsRow ==
    \A c \in Callers :
        (tasks[c].pc = "admitted" /\ tasks'[c].pc = "inserted")
            => /\ Cardinality(reports') = Cardinality(reports) + 1
               /\ \E r \in reports' \ reports :
                    /\ r.id = c
                    /\ r.venue_id = tasks[c].report.venue_id
                    /\ r.user_id = tasks[c].report.user_id
                    /\ r.created_at = now

\* C26: when two submitVibeReport calls of the same participant for the
\* same venue overlap, both can pass the rate-limit query before either
\* inserts; the insert does not look again, so each call that passed the
\* query adds its row, and two reports of one (venue, participant) can
\* stand inside the same hour.
C26_RaceAdmitsBoth ==
    /\ [](\A c \in Callers : Inserted(c) => Cardinality(rowsOf(c)) = 1)
    /\ [][InsertAddsRow]_vars

\* two calls of one participant for one venue have both returned without
\* an error and their two rows are less than an hour apart
C26_Witness ==
    \E c1, c2 \in Callers :
        /\ c1 # c2
        /\ tasks[c1].pc = "done" /\ tasks[c2].pc = "done"
        /\ tasks[c1].report.user_id = tasks[c2].report.user_id
        /\ tasks[c1].report.venue_id = tasks[c2].report.venue_id
        /\ \E r1 \in rowsOf(c1), r2 \in rowsOf(c2) :
             /\ r1.created_at - r2.created_at < 60
             /\ r2.created_at - r1.created_at < 60

\* call c makes its rate-limit query in this step
Checks(c) == tasks[c].pc = "idle" /\ tasks'[c].pc # "idle"

ExistingRejects ==
    \A c \in Callers :
        (Checks(c) /\ recentOf(tasks'[c].report) # {})
            => (tasks'[c].pc = "raised" /\ tasks'[c].error = "RateLimited")

\* C27 (as claimed): submitVibeReport rejects with RateLimited whenever at
\* least one accepted report of the same (venue, participant) lies within
\* the trailing hour, also when two or more do: the number of matching rows
\* never turns a rejection into an admission.
C27_ExistingAlwaysRejects == [][ExistingRejects]_vars

\* a call rejected as RateLimited changes no table and takes no further
\* step
RejectLeavesAll ==
    \A c \in Callers :
        /\ (Checks(c) /\ tasks'[c].error = "RateLimited")
             => (reports' = reports /\ points' = points /\ queued' = queued)
        /\ tasks[c].pc = "raised" => tasks'[c] = tasks[c]

\* the steps of a call come in the order insert, award, queue
InsertThenQueue ==
    \A c \in Callers :
        /\ tasks'[c].pc = "inserted" /\ tasks[c].pc # "inserted"
             => (tasks[c].pc = "admitted" /\ rowsOf(c) = {})
        /\ tasks'[c].pc = "done" /\ tasks[c].pc # "done"
             => /\ tasks[c].pc = "awarded"
                /\ Cardinality(rowsOf(c)) = 1
                /\ reports' = reports
                /\ queued' = queued \cup {tasks[c].report.venue_id}

\* what holds of a call by where it stands
CallFrame ==
    \A c \in Callers :
        /\ tasks[c].error = "RateLimited" => rowsOf(c) = {}
        /\ tasks[c].pc = "done"
             => /\ Cardinality(rowsOf(c)) = 1
                /\ \A r \in rowsOf(c) : /\ r.venue_id = tasks[c].report.venue_id
                                        /\ r.user_id = tasks[c].report.user_id
                /\ tasks[c].report.venue_id \in queued

Lookups == {1, 2}

CacheKeys == {1, 2}

FetchResponses ==
    {r \in ProviderResponses : r.kind = "throw" \/ (r.kind = "ok" /\ r.current >= 45)}

NotLookedUp == [pc |-> "idle", placeId |-> 0, data |-> NoData, called |-> FALSE]

NoWrite == [op |-> "none", by |-> 0, placeId |-> 0]

InitLookups ==
    /\ now = 0
    /\ venues = EngineVenues
    /\ reports = {}
    /\ pings = {}
    /\ social = {}
    /\ cache \in [CacheKeys -> {NoEntry, cacheEntry(70, 0)}]
    /\ calcLog = EmptyBag
    /\ points = EmptyBag
    /\ queued = {}
    /\ result = NoWrite
    /\ history = EmptyBag
    /\ batch = IdleBatch
    /\ tasks = [c \in Lookups |-> NotLookedUp]
    /\ results = <<>>
    /\ summary = NoSummary
    /\ evals = [v \in DOMAIN venues |-> 0]
    /\ faulted = {}

lookupVars == <<reports, pings, social, calcLog, venues, points, queued, history,
                batch, results, summary, evals, faulted>>

\* a minute passes, until an entry written at the start has expired
MinutePasses ==
    /\ now <= cacheExpiry
    /\ now' = now + 1
    /\ UNCHANGED <<cache, tasks, result>>
    /\ UNCHANGED lookupVars

\* the call starts: getCachedData, and the return of a valid entry
ReadCache(c) ==
    /\ tasks[c].pc = "idle"
    /\ \E placeId \in CacheKeys, fault \in {"none", "cacheRead"} :
         tasks' = [tasks EXCEPT ![c] =
            IF fault = "cacheRead"
            THEN [pc |-> "done", placeId |-> placeId, data |-> NoData,
                  called |-> FALSE]
            ELSE IF getCachedData(placeId).present
            THEN [pc |-> "done", placeId |-> placeId,
                  data |-> getCachedData(placeId), called |-> FALSE]
            ELSE [pc |-> "missed", placeId |-> placeId, data |-> NoData,
                  called |-> FALSE]]
    /\ UNCHANGED <<now, cache, result>>
    /\ UNCHANGED lookupVars

\* fetchFromSerpAPI, and the return of null when it gave nothing
FetchFresh(c) ==
    /\ tasks[c].pc = "missed"
    /\ \E response \in FetchResponses :
         tasks' = [tasks EXCEPT ![c] =
            [pc |-> IF fetchFromSerpAPI(TRUE, response).present THEN "fetched"
                    ELSE "done",
             placeId |-> tasks[c].placeId,
             data |-> fetchFromSerpAPI(TRUE, response),
             called |-> TRUE]]
    /\ UNCHANGED <<now, cache, result>>
    /\ UNCHANGED lookupVars

\* cacheData and the return of the fresh data; a raising write ends in the
\* catch, which returns null
WriteCache(c) ==
    /\ tasks[c].pc = "fetched"
    /\ \E fault \in {"none", "cacheWrite"} :
         IF fault = "cacheWrite"
         THEN /\ tasks' = [tasks EXCEPT ![c].pc = "done", ![c].data = NoData]
              /\ UNCHANGED <<cache, result>>
         ELSE /\ tasks' = [tasks EXCEPT ![c].pc = "done"]
              /\ cache' = cacheData(tasks[c].placeId, tasks[c].data)
              /\ result' = [op |-> "cacheData", by |-> c,
                            placeId |-> tasks[c].placeId]
    /\ UNCHANGED now
    /\ UNCHANGED lookupVars

NextLookups ==
    \/ MinutePasses
    \/ \E c \in Lookups : ReadCache(c)
    \/ \E c \in Lookups : FetchFresh(c)
    \/ \E c \in Lookups : WriteCache(c)

SpecLookups == InitLookups /\ [][NextLookups]_vars

(***************************************************************************)
(* Properties of overlapping getBusyness calls                             *)
(***************************************************************************)
\* call c writes the cache in this step
Writes(c) == tasks[c].pc = "fetched" /\ tasks'[c].pc = "done" /\ tasks'[c].data.present

\* a write sets the entry of its key to the writer's sample and leaves the
\* other keys alone; no other step changes the cache
WriteSetsOwnKey ==
    /\ \A c \in Lookups :
         Writes(c) =>
            /\ cache'[tasks[c].placeId].present
            /\ cache'[tasks[c].placeId].busyness_data = tasks[c].data
            /\ cache'[tasks[c].placeId].fetched_at = now
            /\ \A k \in CacheKeys \ {tasks[c].placeId} : cache'[k] = cache[k]
    /\ (\A c \in Lookups : ~Writes(c)) => cache' = cache

\* the entry of the key written last is the sample of the call that wrote
\* last
LastWriterWins ==
    result.op = "cacheData" =>
        /\ DOMAIN cache = CacheKeys
        /\ cache[result.placeId].present
        /\ cache[result.placeId].busyness_data = tasks[result.by].data

\* C29: when two getBusyness calls for the same place id overlap on a cache
\* miss, both may call the provider, and after both complete the cache
\* holds exactly one entry for that key, equal to the sample written by
\* whichever call wrote last; entries of other keys are unchanged.
C29_LastWriterWins == []LastWriterWins /\ [][WriteSetsOwnKey]_vars

\* both calls missed on the same key, both called the provider and got
\* different samples, both have returned, and the entry is the sample of
\* the call that wrote last, not the other's
C29_Witness ==
    /\ tasks[1].pc = "done" /\ tasks[2].pc = "done"
    /\ tasks[1].placeId = tasks[2].placeId
    /\ tasks[1].called /\ tasks[2].called
    /\ tasks[1].data.present /\ tasks[2].data.present
    /\ tasks[1].data # tasks[2].data
    /\ result.op = "cacheData"
    /\ cache[result.placeId].busyness_data = tasks[result.by].data

(***************************************************************************)
(* Properties of the persistence steps of updateAllVenues                  *)
(***************************************************************************)
\* the pulse columns of the venue were written in this run (the rows start
\* with pulse_updated_at = 0; the update sets it to the time of the run)
scorePersisted(v) == venues[v].pulse_updated_at # 0

historyOf(v) == {row \in BagToSet(history) : row.venue_id = v}

\* C30 (as claimed): in updateAllVenues, the history row of a venue is
\* appended only after that venue's score has been persisted; a venue whose
\* persist step fails gets no history row in this run, and a venue recorded
\* as failed has had no score persisted in this run.
C30_HistoryAfterPersist ==
    /\ \A v \in DOMAIN venues :
         /\ \A row \in historyOf(v) :
              scorePersisted(v) /\ venues[v].pulse = row.pulse_value
         /\ ~scorePersisted(v) => historyOf(v) = {}
    /\ \A k \in DOMAIN tasks :
         (tasks[k].state = "done" /\ ~tasks[k].result.success)
             => ~scorePersisted(batch.list[k])

\* C31 (as claimed): calculateConfidence applies the -0.20 age penalty
\* whenever the data age exceeds 120 minutes: for equal source and count,
\* the result for an age above 120 minutes is lower than the result for an
\* age in (60, 120], unless both are clamped to 0.1.
C31_OldAgePenalty ==
    result.op = "calculateConfidenceByAge" =>
        \A s \in DataSources :
            \A a1 \in {a \in DataAges : a > 60 /\ a <= 120},
               a2 \in {a \in DataAges : a > 120} :
                \/ result.out[a2][s] < result.out[a1][s]
                \/ (result.out[a2][s] = 100 /\ result.out[a1][s] = 100)

(***************************************************************************)
(* PulseCalculator.applyTimeModifiers on its own, for every hour and day   *)
(* of the week                                                             *)
(***************************************************************************)
NoModification(basePulse, hour, day) ==
    [op |-> "none", basePulse |-> basePulse, hour |-> hour, day |-> day, out |-> 0]

InitTimes ==
    /\ now = 120
    /\ venues = EngineVenues
    /\ reports = {}
    /\ pings = {}
    /\ social = {}
    /\ cache = [p \in PlaceIds |-> NoEntry]
    /\ calcLog = EmptyBag
    /\ points = EmptyBag
    /\ queued = {}
    /\ \E basePulse \in {Unit, 54 * Tenth}, hour \in 0..23, day \in 0..6 :
         result = NoModification(basePulse, hour, day)
    /\ BatchIdle

\* calculator.applyTimeModifiers(basePulse, hour, dayOfWeek)
ApplyTimeModifiers ==
    /\ result.op = "none"
    /\ result' = [result EXCEPT
                    !.op = "applyTimeModifiers",
                    !.out = applyTimeModifiers(result.basePulse, result.hour,
                                               result.day)]
    /\ UNCHANGED <<now, cache, reports, pings, social, calcLog, venues, points,
                   queued>>
    /\ UNCHANGED batchVars

NextTimes == ApplyTimeModifiers

SpecTimes == InitTimes /\ [][NextTimes]_vars

(***************************************************************************)
(* Properties of applyTimeModifiers                                        *)
(***************************************************************************)
\* the calendar windows in their order (day 0 is Sunday)
weekendNight(h, d) == d \in {4, 5, 6, 0} /\ (h \in 22..23 \/ h \in 0..2)
generalEvening(h, d) == h >= 20 \/ h = 0
happyHour(h, d) == d \in 1..5 /\ h \in 17..19
lateNight(h, d) == d \in 1..3 /\ (h = 23 \/ h \in 0..1)
daytime(h, d) == h \in 6..16
earlyMorning(h, d) == h \in 3..5

\* the multiplier of the first window that matches, in hundredths
firstMatch(h, d) ==
    CASE weekendNight(h, d) -> 115
      [] ~weekendNight(h, d) /\ generalEvening(h, d) -> 110
      [] ~weekendNight(h, d) /\ ~generalEvening(h, d) /\ happyHour(h, d) -> 105
      [] ~weekendNight(h, d) /\ ~generalEvening(h, d) /\ ~happyHour(h, d)
           /\ lateNight(h, d) -> 90
      [] ~weekendNight(h, d) /\ ~generalEvening(h, d) /\ ~happyHour(h, d)
           /\ ~lateNight(h, d) /\ daytime(h, d) -> 70
      [] ~weekendNight(h, d) /\ ~generalEvening(h, d) /\ ~happyHour(h, d)
           /\ ~lateNight(h, d) /\ ~daytime(h, d) /\ earlyMorning(h, d) -> 50
      [] OTHER -> 100

\* C32: for every hour 0..23 and day of week 0..6, applyTimeModifiers
\* multiplies by the multiplier of the first matching window of the ordered
\* list weekend-night 1.15, general evening 1.10, weekday happy-hour 1.05,
\* weekday late-night 0.90, daytime 0.70, very-early-morning 0.50, else 1.0;
\* under this order the 0.90 multiplier results only for Monday to Wednesday
\* at hour 1, while hours 23 and 0 on those days give 1.10.
C32_FirstMatchWins ==
    result.op = "applyTimeModifiers" =>
        /\ result.out * 100 = result.basePulse * firstMatch(result.hour, result.day)
        /\ (result.out * 100 = result.basePulse * 90)
             <=> (result.day \in 1..3 /\ result.hour = 1)
        /\ (result.day \in 1..3 /\ result.hour \in {23, 0})
             => result.out * 100 = result.basePulse * 110

\* 11pm on a Tuesday lies in the late-night window and gets the evening's
\* 1.10
C32_Witness ==
    /\ result.op = "applyTimeModifiers"
    /\ result.hour = 23
    /\ result.day = 2
    /\ lateNight(result.hour, result.day)
    /\ result.out * 100 = result.basePulse * 110

(***************************************************************************)
(* The three operations that evaluate a venue, from one state of the       *)
(* Store: a behaviour is one Pulse.calculate, one Pulse.updateVenue or one *)
(* Pulse.updateAll run                                                     *)
(***************************************************************************)
NextPulse ==
    \/ batch.phase = "idle" /\ CalculateUnknown
    \/ batch.phase = "idle" /\ CalculateSpree
    \/ batch.phase = "idle" /\ CalculateNonPartner
    \/ batch.phase = "idle" /\ UpdateVenue
    \/ result.op = "none" /\ StartUpdateAll
    \/ result.op = "none" /\ StartChunk
    \/ result.op = "none" /\ FinishVenue
    \/ result.op = "none" /\ CollectChunk
    \/ result.op = "none" /\ Summarize

SpecPulse == Init /\ [][NextPulse]_vars

(***************************************************************************)
(* Properties of the persisted score fields                                *)
(***************************************************************************)
\* the persisted score fields of a venue
scoreFields(row) ==
    <<row.pulse, row.pulse_confidence, row.pulse_data_source, row.pulse_updated_at>>

\* this step is a Pulse.calculate call
CalculateStep == result.op = "none" /\ result'.op = "calculate"

\* this step is a Pulse.updateVenue(v) call
UpdateVenueStep(v) ==
    result.op = "none" /\ result'.op = "updateVenue" /\ result'.venueId = v

\* this step settles the callback of updateAllVenues for venue v
BatchVenueStep(v) ==
    \E k \in DOMAIN tasks :
        /\ batch.list[k] = v
        /\ tasks[k].state = "running"
        /\ tasks'[k].state = "done"

ScoreFieldsFrame ==
    /\ DOMAIN venues' = DOMAIN venues
    /\ CalculateStep => venues' = venues
    /\ \A v \in DOMAIN venues :
         scoreFields(venues'[v]) # scoreFields(venues[v])
             => (UpdateVenueStep(v) \/ BatchVenueStep(v))

\* C33: calculate(venueId) never changes a venue's persisted score fields
\* (pulse, pulse_confidence, pulse_data_source, pulse_updated_at) on any
\* path; those fields change only in the persist step of updateVenue and
\* updateAllVenues, and only for the venue being updated.
C33_ScoreFieldsFrame == [][ScoreFieldsFrame]_vars

\* updateVenue(2) persisted the pulse it returned in the row of venue 2 and
\* left the rows of venues 1 and 3 as they were
C33_Witness ==
    /\ result.op = "updateVenue"
    /\ result.venueId = 2
    /\ ~result.raised
    /\ venues[2].pulse = result.pulse.value
    /\ venues[2].pulse_updated_at = now
    /\ venues[1] = EngineVenues[1]
    /\ venues[3] = EngineVenues[3]

====
